---- MODULE Spec2Model ----
(***************************************************************************)
(* State-machine model of the data structures of                           *)
(* algorithms_and_data_structures.                                         *)
(*                                                                         *)
(* DoublyLinkedList (src/src/data_structures/doubly_linked_list.rs) is     *)
(* modelled as a heap of reference-counted cells: `nodes` maps the address *)
(* of every live Rc<RefCell<Node<T>>> to its Node, and head / tail / next  *)
(* / previous hold addresses (Nil for Option::None).                       *)
(*                                                                         *)
(* A method that can end in more than one way, depending on the build      *)
(* profile (usize overflow panics with overflow checks and wraps without), *)
(* is an operator yielding the set of its possible outcomes.               *)
(***************************************************************************)
EXTENDS Integers, Sequences, FiniteSets, TLC

\* ---------------------------------------------------------------- bounds
\* Longest list the API specification builds (push / shift are guarded by it).
MaxLen == 3
\* The element type T is modelled by 1..MaxValue.
MaxValue == 2
\* Number of distinct keys inserted into a BinarySearchTree.
MaxKey == 6
\* Longest Vec or slice handed to a From impl or to a sort.
MaxVecLen == 4
\* Number of distinct element values in such a Vec or slice.
MaxElement == 3

Values == 1..MaxValue
\* Addresses of the heap cells an Rc<RefCell<Node<T>>> can live at.
NodeIds == 1..MaxLen

\* -------------------------------------------------------- Option and usize
\* Option::None of an Option<Link<T>>: no address.
Nil == 0
\* Option<T> results: None is the empty sequence, Some(v) the one-element one.
None == <<>>
Some(v) == <<v>>

\* usize::MAX (2^64 - 1), written as its two's-complement reading: it is the
\* wrapped result of 0 - 1, and is ordered by usize_gt below.
USIZE_MAX == -1

\* a > b on usize, with USIZE_MAX the largest value.
usize_gt(a, b) ==
    IF a = USIZE_MAX THEN b # USIZE_MAX
    ELSE IF b = USIZE_MAX THEN FALSE
    ELSE a > b

\* Indices the callers pass: every position, the length itself, and usize::MAX.
Indices == (0..MaxLen) \cup {USIZE_MAX}

VARIABLES
    list,             \* the DoublyLinkedList: length, head, tail and its heap
    op,               \* the last call made on it: [name, args]
    ret,              \* what that call returned (an Option<T>)
    panicked,         \* TRUE once a call has panicked (the thread is unwinding)
    panic_message,    \* what the panic was ("" while none has happened)
    pc,               \* the driver program and its position (at = "api": calls are free)
    input,            \* the driver's input values
    output,           \* the values the driver has collected
    tree,             \* the BinarySearchTree
    inserted,         \* the values passed to BinarySearchTree::insert so far
    array,            \* the slice handed to a sort
    swaps,            \* the calls of array.swap the last sort made
    linked_list,      \* the SinglyLinkedList: length, head, tail and its heap
    stack             \* the Stack: top_layer and size

vars == <<list, op, ret, panicked, panic_message, pc, input, output, tree, inserted,
          array, swaps, linked_list, stack>>

\* ------------------------------------------------------------------ Node
\* Node::new(value)
Node(value) == [value |-> value, next |-> Nil, previous |-> Nil]

\* DoublyLinkedList::new() / Default
new == [length |-> 0, head |-> Nil, tail |-> Nil, nodes |-> <<>>]

\* The panics of doubly_linked_list.rs: usize overflow, a second borrow_mut of
\* a RefCell that is already borrowed, and a failed expect() on Rc::into_inner.
Overflow == "attempt to subtract with overflow"
AlreadyBorrowed == "already borrowed: BorrowMutError"
ExpectFailed == "Attempting to extract value failed"

\* Outcome of a call: the list afterwards, the value returned, whether it
\* panicked and with what.
Returned(self, r) == [self |-> self, ret |-> r, panicked |-> FALSE, message |-> ""]
PanicWith(self, message) ==
    [self |-> self, ret |-> None, panicked |-> TRUE, message |-> message]
Panic(self) == PanicWith(self, Overflow)

\* Number of strong references the heap holds to `node` (head, tail, and the
\* next / previous fields of live nodes).
strong_count(self, node) ==
    (IF self.head = node THEN 1 ELSE 0)
    + (IF self.tail = node THEN 1 ELSE 0)
    + Cardinality({m \in DOMAIN self.nodes : self.nodes[m].next = node})
    + Cardinality({m \in DOMAIN self.nodes : self.nodes[m].previous = node})

\* Rc::into_inner(node).expect(..).into_inner().value : the caller's local Rc
\* is the last owner exactly when the heap holds no reference to the node; the
\* cell is then freed and its value moved out, otherwise expect() panics.
into_inner(self, node) ==
    IF strong_count(self, node) = 0
    THEN Returned([self EXCEPT !.nodes =
                       [m \in (DOMAIN self.nodes) \ {node} |-> self.nodes[m]]],
                  Some(self.nodes[node].value))
    ELSE PanicWith(self, ExpectFailed)

\* `self.length -= 1` followed by the extraction of `node`. At length 0 the
\* subtraction overflows: a panic with overflow checks, usize::MAX without.
decrement_and_extract(self, node) ==
    IF self.length = 0
    THEN {Panic(self), into_inner([self EXCEPT !.length = USIZE_MAX], node)}
    ELSE {into_inner([self EXCEPT !.length = self.length - 1], node)}

\* Rc::new: the address of the cell allocated for a new node. The program never
\* inspects an address, so the allocator is taken to hand out the lowest free
\* one; cells freed by pop / unshift / remove are reused.
rc_new(self) ==
    CHOOSE n \in NodeIds \ DOMAIN self.nodes :
        \A m \in NodeIds \ DOMAIN self.nodes : n <= m

\* ------------------------------------------------------------ operations
\* Mutant of push: `self.length += 1` left out.
push_skips_length(self, value, new_node) ==
    LET nodes1 == (new_node :> Node(value)) @@ self.nodes
    IN  IF self.tail # Nil
        THEN [length |-> self.length,
              head   |-> self.head,
              tail   |-> new_node,
              nodes  |-> [nodes1 EXCEPT ![self.tail].next = new_node,
                                        ![new_node].previous = self.tail]]
        ELSE [length |-> self.length,
              head   |-> new_node,
              tail   |-> new_node,
              nodes  |-> nodes1]

\* DoublyLinkedList::push; new_node is the address Rc::new returns.
push(self, value, new_node) ==
    LET nodes1 == (new_node :> Node(value)) @@ self.nodes
    IN  IF self.tail # Nil
        THEN [length |-> self.length + 1,
              head   |-> self.head,
              tail   |-> new_node,
              nodes  |-> [nodes1 EXCEPT ![self.tail].next = new_node,
                                        ![new_node].previous = self.tail]]
        ELSE [length |-> self.length + 1,
              head   |-> new_node,
              tail   |-> new_node,
              nodes  |-> nodes1]

\* Mutant of pop: `new_tail.borrow_mut().next = None` left out, so the new
\* tail still owns the node being taken out.
pop_keeps_next_link(self) ==
    IF self.tail = Nil THEN {Returned(self, None)}
    ELSE
        LET old_tail == self.tail
            new_tail == self.nodes[old_tail].previous
            nodes1   == [self.nodes EXCEPT ![old_tail].previous = Nil]
            relinked ==
                IF new_tail # Nil
                THEN [self EXCEPT !.tail = new_tail, !.nodes = nodes1]
                ELSE [self EXCEPT !.tail = Nil, !.head = Nil, !.nodes = nodes1]
        IN  IF new_tail = old_tail THEN {PanicWith(self, AlreadyBorrowed)}
            ELSE decrement_and_extract(relinked, old_tail)

\* Mutant of pop: `self.head = None` left out when the last node is popped.
pop_keeps_head(self) ==
    IF self.tail = Nil THEN {Returned(self, None)}
    ELSE
        LET old_tail == self.tail
            new_tail == self.nodes[old_tail].previous
            nodes1   == [self.nodes EXCEPT ![old_tail].previous = Nil]
            relinked ==
                IF new_tail # Nil
                THEN [self EXCEPT !.tail = new_tail,
                                  !.nodes = [nodes1 EXCEPT ![new_tail].next = Nil]]
                ELSE [self EXCEPT !.tail = Nil, !.nodes = nodes1]
        IN  IF new_tail = old_tail THEN {PanicWith(self, AlreadyBorrowed)}
            ELSE decrement_and_extract(relinked, old_tail)

\* Mutant of pop: takes the node at the head end (follows next, not previous).
pop_takes_head(self) ==
    IF self.head = Nil THEN {Returned(self, None)}
    ELSE
        LET old_head == self.head
            new_head == self.nodes[old_head].next
            nodes1   == [self.nodes EXCEPT ![old_head].next = Nil]
            relinked ==
                IF new_head # Nil
                THEN [self EXCEPT !.head = new_head,
                                  !.nodes = [nodes1 EXCEPT ![new_head].previous = Nil]]
                ELSE [self EXCEPT !.head = Nil, !.tail = Nil, !.nodes = nodes1]
        IN  decrement_and_extract(relinked, old_head)

\* DoublyLinkedList::pop: the set of its outcomes.
pop(self) ==
    IF self.tail = Nil THEN {Returned(self, None)}
    ELSE
        LET old_tail == self.tail
            new_tail == self.nodes[old_tail].previous
            nodes1   == [self.nodes EXCEPT ![old_tail].previous = Nil]
            relinked ==
                IF new_tail # Nil
                THEN [self EXCEPT !.tail = new_tail,
                                  !.nodes = [nodes1 EXCEPT ![new_tail].next = Nil]]
                ELSE [self EXCEPT !.tail = Nil, !.head = Nil, !.nodes = nodes1]
        IN  IF new_tail = old_tail THEN {PanicWith(self, AlreadyBorrowed)}
            ELSE decrement_and_extract(relinked, old_tail)

\* Mutant of shift: on the empty list only head is set, tail stays empty.
shift_leaves_tail_empty(self, value, new_node) ==
    LET nodes1 == (new_node :> Node(value)) @@ self.nodes
    IN  IF self.head # Nil
        THEN [length |-> self.length + 1,
              head   |-> new_node,
              tail   |-> self.tail,
              nodes  |-> [nodes1 EXCEPT ![self.head].previous = new_node,
                                        ![new_node].next = self.head]]
        ELSE [length |-> self.length + 1,
              head   |-> new_node,
              tail   |-> Nil,
              nodes  |-> nodes1]

\* DoublyLinkedList::shift; new_node is the address Rc::new returns.
shift(self, value, new_node) ==
    LET nodes1 == (new_node :> Node(value)) @@ self.nodes
    IN  IF self.head # Nil
        THEN [length |-> self.length + 1,
              head   |-> new_node,
              tail   |-> self.tail,
              nodes  |-> [nodes1 EXCEPT ![self.head].previous = new_node,
                                        ![new_node].next = self.head]]
        ELSE [length |-> self.length + 1,
              head   |-> new_node,
              tail   |-> new_node,
              nodes  |-> nodes1]

\* Mutant of unshift: `self.tail = None` left out when the last node goes.
unshift_keeps_tail(self) ==
    IF self.head = Nil THEN {Returned(self, None)}
    ELSE
        LET old_head == self.head
            new_head == self.nodes[old_head].next
            nodes1   == [self.nodes EXCEPT ![old_head].next = Nil]
            relinked ==
                IF new_head # Nil
                THEN [self EXCEPT !.head = new_head,
                                  !.nodes = [nodes1 EXCEPT ![new_head].previous = Nil]]
                ELSE [self EXCEPT !.head = Nil, !.nodes = nodes1]
        IN  decrement_and_extract(relinked, old_head)

\* DoublyLinkedList::unshift: the set of its outcomes.
unshift(self) ==
    IF self.head = Nil THEN {Returned(self, None)}
    ELSE
        LET old_head == self.head
            new_head == self.nodes[old_head].next
            nodes1   == [self.nodes EXCEPT ![old_head].next = Nil]
            relinked ==
                IF new_head # Nil
                THEN [self EXCEPT !.head = new_head,
                                  !.nodes = [nodes1 EXCEPT ![new_head].previous = Nil]]
                ELSE [self EXCEPT !.head = Nil, !.tail = Nil, !.nodes = nodes1]
        IN  IF new_head = old_head THEN {PanicWith(self, AlreadyBorrowed)}
            ELSE decrement_and_extract(relinked, old_head)

\* The `while let Some(next) = current.clone()` loop shared by set, remove and
\* get: follow next links from `current` until current_index = index or the
\* chain ends; yields the node reached, or Nil.
RECURSIVE walk(_, _, _, _)
walk(nodes, current, current_index, index) ==
    IF current = Nil THEN Nil
    ELSE IF current_index = index THEN current
    ELSE walk(nodes, nodes[current].next, current_index + 1, index)

\* Mutant of set: returns the new value instead of the replaced one.
set_returns_new(self, index, value) ==
    IF usize_gt(index, self.length) THEN Returned(self, None)
    ELSE
        LET current == walk(self.nodes, self.head, 0, index)
        IN  IF current # Nil
            THEN Returned([self EXCEPT !.nodes[current].value = value], Some(value))
            ELSE Returned(self, None)

\* DoublyLinkedList::set
set(self, index, value) ==
    IF usize_gt(index, self.length) THEN Returned(self, None)
    ELSE
        LET current == walk(self.nodes, self.head, 0, index)
        IN  IF current # Nil
            THEN Returned([self EXCEPT !.nodes[current].value = value],
                          Some(self.nodes[current].value))
            ELSE Returned(self, None)

\* Mutant of get: the walk counts from 1 instead of 0.
get_counts_from_one(self, index) ==
    IF usize_gt(index, self.length) THEN Returned(self, None)
    ELSE
        LET current == walk(self.nodes, self.head, 1, index)
        IN  IF current # Nil
            THEN Returned(self, Some(self.nodes[current].value))
            ELSE Returned(self, None)

\* DoublyLinkedList::get
get(self, index) ==
    IF usize_gt(index, self.length) THEN Returned(self, None)
    ELSE
        LET current == walk(self.nodes, self.head, 0, index)
        IN  IF current # Nil
            THEN Returned(self, Some(self.nodes[current].value))
            ELSE Returned(self, None)

\* Mutant of remove_walk: `next.previous = previous` left out.
remove_walk_keeps_back_link(self, index) ==
    LET current == walk(self.nodes, self.head, 0, index)
    IN  IF current = Nil THEN {Returned(self, None)}
        ELSE
            LET previous == self.nodes[current].previous
                next     == self.nodes[current].next
                nodes1   == [self.nodes EXCEPT ![current].previous = Nil,
                                               ![current].next = Nil]
                nodes2   == IF previous # Nil
                            THEN [nodes1 EXCEPT ![previous].next = next]
                            ELSE nodes1
            IN  decrement_and_extract([self EXCEPT !.nodes = nodes2], current)

\* The body of remove after the two delegations: locate the node by a linear
\* walk, link its neighbours to each other and extract its value.
remove_walk(self, index) ==
    LET current == walk(self.nodes, self.head, 0, index)
    IN  IF current = Nil THEN {Returned(self, None)}
        ELSE
            LET previous == self.nodes[current].previous
                next     == self.nodes[current].next
                nodes1   == [self.nodes EXCEPT ![current].previous = Nil,
                                               ![current].next = Nil]
                nodes2   == IF previous # Nil
                            THEN [nodes1 EXCEPT ![previous].next = next]
                            ELSE nodes1
                nodes3   == IF next # Nil
                            THEN [nodes2 EXCEPT ![next].previous = previous]
                            ELSE nodes2
            IN  IF previous = current \/ next = current
                THEN {PanicWith(self, AlreadyBorrowed)}
                ELSE decrement_and_extract([self EXCEPT !.nodes = nodes3], current)

\* remove for index # 0, once `self.len() - 1` has been evaluated to last_index.
remove_after_last_index(self, index, last_index) ==
    IF index = last_index THEN pop(self) ELSE remove_walk(self, index)

\* Mutant of remove: delegates to pop at index == len() instead of len() - 1.
remove_pops_at_len(self, index) ==
    IF index = 0 THEN unshift(self)
    ELSE remove_after_last_index(self, index, self.length)

\* DoublyLinkedList::remove: the set of its outcomes. `self.len() - 1` is
\* evaluated whenever index # 0, also on the empty list, where it overflows: a
\* panic with overflow checks, usize::MAX without.
remove(self, index) ==
    IF index = 0 THEN unshift(self)
    ELSE IF self.length = 0
         THEN {Panic(self)} \cup remove_after_last_index(self, index, USIZE_MAX)
         ELSE remove_after_last_index(self, index, self.length - 1)

\* Mutant of iter_next: drains from the tail.
iter_next_pops(self) == pop(self)

\* Iterator::next for DoublyLinkedList
iter_next(self) == unshift(self)

\* Dropping an Rc: a cell that no list field, no live node and no local in
\* `held` refers to is freed, and with it the references its own links held.
RECURSIVE release(_, _)
release(self, held) ==
    LET dead == {n \in DOMAIN self.nodes : strong_count(self, n) = 0 /\ n \notin held}
    IN  IF dead = {} THEN self
        ELSE release([self EXCEPT !.nodes =
                         [m \in (DOMAIN self.nodes) \ dead |-> self.nodes[m]]], held)

\* The `while let Some(node) = self.head.take()` loop of Drop::drop: the list
\* when the loop exits and the nodes it visited, in order.
RECURSIVE drop_loop(_, _)
drop_loop(self, visited) ==
    IF self.head = Nil \/ self.head \notin DOMAIN self.nodes
    THEN [self |-> self, visited |-> visited]
    ELSE
        LET node  == self.head
            taken == release([self EXCEPT !.head = Nil,
                                          !.nodes[node].previous = Nil], {node})
            moved == [taken EXCEPT !.head = taken.nodes[node].next,
                                   !.nodes[node].next = Nil]
        IN  drop_loop(release(moved, {}), Append(visited, node))

\* Mutant of drop: no Drop impl, only the fields head and tail are dropped.
drop_fields_only(self) == release([self EXCEPT !.head = Nil, !.tail = Nil], {})

\* <DoublyLinkedList as Drop>::drop followed by the drop of the fields.
drop(self) ==
    release([drop_loop(self, <<>>).self EXCEPT !.head = Nil, !.tail = Nil], {})

\* The message of todo!().
NotImplemented == "not yet implemented"

\* Mutant of insert: an empty body in the place of todo!().
insert_returns(self, index, value) == Returned(self, None)

\* DoublyLinkedList::insert: the body is todo!(), which panics before it
\* reads the index, the value or the list.
insert(self, index, value) == PanicWith(self, NotImplemented)

\* ------------------------------------------------------------ observation
\* The values met walking from `node` along next links, at most `fuel` nodes.
RECURSIVE values_from(_, _, _)
values_from(nodes, node, fuel) ==
    IF node = Nil \/ fuel = 0 \/ node \notin DOMAIN nodes THEN <<>>
    ELSE <<nodes[node].value>> \o values_from(nodes, nodes[node].next, fuel - 1)

\* The list's values from head to tail.
contents(self) == values_from(self.nodes, self.head, Cardinality(DOMAIN self.nodes) + 1)

\* ---------------------------------------------------- binary search tree
\* The keys inserted into the tree (T: Ord, compared with cmp only).
Keys == 1..MaxKey

\* Node::new(value); an Option<Box<Node<T>>> is None or Some(node).
TreeNode(value) == [value |-> value, left |-> None, right |-> None]

\* BinarySearchTree::new() / Default
tree_new == [root |-> None]

\* Mutant of Node::insert: the branches of Less and Greater exchanged.
RECURSIVE node_insert_mirrored(_, _)
node_insert_mirrored(self, value) ==
    IF self.value = value THEN self
    ELSE IF self.value < value
         THEN IF self.left # None
              THEN [self EXCEPT !.left = Some(node_insert_mirrored(self.left[1], value))]
              ELSE [self EXCEPT !.left = Some(TreeNode(value))]
         ELSE IF self.right # None
              THEN [self EXCEPT !.right = Some(node_insert_mirrored(self.right[1], value))]
              ELSE [self EXCEPT !.right = Some(TreeNode(value))]

\* Mutant of Node::insert: Equal is handled like Less, so a value already
\* stored is inserted once more into the right subtree.
RECURSIVE node_insert_equal_goes_right(_, _)
node_insert_equal_goes_right(self, value) ==
    IF self.value <= value
    THEN IF self.right # None
         THEN [self EXCEPT !.right = Some(node_insert_equal_goes_right(self.right[1], value))]
         ELSE [self EXCEPT !.right = Some(TreeNode(value))]
    ELSE IF self.left # None
         THEN [self EXCEPT !.left = Some(node_insert_equal_goes_right(self.left[1], value))]
         ELSE [self EXCEPT !.left = Some(TreeNode(value))]

\* Node::insert: the node afterwards. self.value.cmp(&value) is Less when
\* self.value < value.
RECURSIVE node_insert(_, _)
node_insert(self, value) ==
    IF self.value = value THEN self
    ELSE IF self.value < value
         THEN IF self.right # None
              THEN [self EXCEPT !.right = Some(node_insert(self.right[1], value))]
              ELSE [self EXCEPT !.right = Some(TreeNode(value))]
         ELSE IF self.left # None
              THEN [self EXCEPT !.left = Some(node_insert(self.left[1], value))]
              ELSE [self EXCEPT !.left = Some(TreeNode(value))]

\* Mutant of BinarySearchTree::insert: a value greater than the root's becomes
\* the new root, with the old tree as its left subtree.
tree_insert_new_root(self, value) ==
    IF self.root # None
    THEN IF self.root[1].value < value
         THEN [root |-> Some([value |-> value, left |-> self.root, right |-> None])]
         ELSE [root |-> Some(node_insert(self.root[1], value))]
    ELSE [root |-> Some(TreeNode(value))]

\* BinarySearchTree::insert: the tree afterwards.
tree_insert(self, value) ==
    IF self.root # None
    THEN [root |-> Some(node_insert(self.root[1], value))]
    ELSE [root |-> Some(TreeNode(value))]

\* The loop of From<Vec<T>>: insert the values in order.
RECURSIVE from_loop(_, _)
from_loop(self, vec_value) ==
    IF vec_value = <<>> THEN self
    ELSE from_loop(tree_insert(self, Head(vec_value)), Tail(vec_value))

\* BinarySearchTree::from(vec_value)
tree_from(vec_value) == from_loop(tree_new, vec_value)

\* Mutant of Node::contains: descends to the left where the value is greater.
RECURSIVE node_contains_mirrored(_, _)
node_contains_mirrored(self, value) ==
    IF self.value = value THEN TRUE
    ELSE IF self.value < value
         THEN IF self.left # None THEN node_contains_mirrored(self.left[1], value) ELSE FALSE
         ELSE IF self.right # None THEN node_contains_mirrored(self.right[1], value) ELSE FALSE

\* Node::contains
RECURSIVE node_contains(_, _)
node_contains(self, value) ==
    IF self.value = value THEN TRUE
    ELSE IF self.value < value
         THEN IF self.right # None THEN node_contains(self.right[1], value) ELSE FALSE
         ELSE IF self.left # None THEN node_contains(self.left[1], value) ELSE FALSE

\* Mutant of BinarySearchTree::contains: `None => true`.
tree_contains_none_true(self, value) ==
    IF self.root # None THEN node_contains(self.root[1], value) ELSE TRUE

\* BinarySearchTree::contains
tree_contains(self, value) ==
    IF self.root # None THEN node_contains(self.root[1], value) ELSE FALSE

\* Mutant of the loop of traverse_breath_first: pop_back in place of
\* pop_front.
RECURSIVE breath_first_loop_pop_back(_, _)
breath_first_loop_pop_back(queue, results) ==
    IF queue = <<>> THEN results
    ELSE
        LET node   == queue[Len(queue)]
            queue0 == SubSeq(queue, 1, Len(queue) - 1)
            queue1 == IF node.left # None THEN Append(queue0, node.left[1]) ELSE queue0
            queue2 == IF node.right # None THEN Append(queue1, node.right[1]) ELSE queue1
        IN  breath_first_loop_pop_back(queue2, Append(results, node.value))

\* `while let Some(node) = queue.pop_front() { .. }` of traverse_breath_first:
\* the results when the queue has run empty.
RECURSIVE breath_first_loop(_, _)
breath_first_loop(queue, results) ==
    IF queue = <<>> THEN results
    ELSE
        LET node   == Head(queue)
            queue0 == Tail(queue)
            queue1 == IF node.left # None THEN Append(queue0, node.left[1]) ELSE queue0
            queue2 == IF node.right # None THEN Append(queue1, node.right[1]) ELSE queue1
        IN  breath_first_loop(queue2, Append(results, node.value))

\* BinarySearchTree::traverse_breath_first
traverse_breath_first(self) ==
    IF self.root = None THEN <<>>
    ELSE breath_first_loop(<<self.root[1]>>, <<>>)

\* Mutant of Node::traverse_depth_first_pre_order: the right subtree is never
\* visited.
RECURSIVE node_pre_order_left_only(_, _)
node_pre_order_left_only(self, values) ==
    LET values1 == Append(values, self.value)
        values2 == IF self.left # None
                   THEN node_pre_order_left_only(self.left[1], values1) ELSE values1
    IN  values2

\* Mutant of Node::traverse_depth_first_pre_order: right subtree before left.
RECURSIVE node_pre_order_right_first(_, _)
node_pre_order_right_first(self, values) ==
    LET values1 == Append(values, self.value)
        values2 == IF self.right # None
                   THEN node_pre_order_right_first(self.right[1], values1) ELSE values1
        values3 == IF self.left # None
                   THEN node_pre_order_right_first(self.left[1], values2) ELSE values2
    IN  values3

\* Node::traverse_depth_first_pre_order: `values` after the call.
RECURSIVE node_traverse_depth_first_pre_order(_, _)
node_traverse_depth_first_pre_order(self, values) ==
    LET values1 == Append(values, self.value)
        values2 == IF self.left # None
                   THEN node_traverse_depth_first_pre_order(self.left[1], values1) ELSE values1
        values3 == IF self.right # None
                   THEN node_traverse_depth_first_pre_order(self.right[1], values2) ELSE values2
    IN  values3

\* BinarySearchTree::traverse_depth_first_pre_order
traverse_depth_first_pre_order(self) ==
    IF self.root = None THEN <<>>
    ELSE node_traverse_depth_first_pre_order(self.root[1], <<>>)

\* Mutant of Node::traverse_depth_first_post_order: the value is pushed before
\* the right subtree is visited.
RECURSIVE node_post_order_value_before_right(_, _)
node_post_order_value_before_right(self, values) ==
    LET values1 == IF self.left # None
                   THEN node_post_order_value_before_right(self.left[1], values) ELSE values
        values2 == Append(values1, self.value)
        values3 == IF self.right # None
                   THEN node_post_order_value_before_right(self.right[1], values2) ELSE values2
    IN  values3

\* Node::traverse_depth_first_post_order: `values` after the call.
RECURSIVE node_traverse_depth_first_post_order(_, _)
node_traverse_depth_first_post_order(self, values) ==
    LET values1 == IF self.left # None
                   THEN node_traverse_depth_first_post_order(self.left[1], values) ELSE values
        values2 == IF self.right # None
                   THEN node_traverse_depth_first_post_order(self.right[1], values1) ELSE values1
        values3 == Append(values2, self.value)
    IN  values3

\* BinarySearchTree::traverse_depth_first_post_order
traverse_depth_first_post_order(self) ==
    IF self.root = None THEN <<>>
    ELSE node_traverse_depth_first_post_order(self.root[1], <<>>)

\* Mutant of Node::traverse_depth_first_in_order: the value is pushed before
\* the left subtree is visited.
RECURSIVE node_in_order_value_first(_, _)
node_in_order_value_first(self, values) ==
    LET values1 == Append(values, self.value)
        values2 == IF self.left # None
                   THEN node_in_order_value_first(self.left[1], values1) ELSE values1
        values3 == IF self.right # None
                   THEN node_in_order_value_first(self.right[1], values2) ELSE values2
    IN  values3

\* Node::traverse_depth_first_in_order: `values` after the call.
RECURSIVE node_traverse_depth_first_in_order(_, _)
node_traverse_depth_first_in_order(self, values) ==
    LET values1 == IF self.left # None
                   THEN node_traverse_depth_first_in_order(self.left[1], values) ELSE values
        values2 == Append(values1, self.value)
        values3 == IF self.right # None
                   THEN node_traverse_depth_first_in_order(self.right[1], values2) ELSE values2
    IN  values3

\* BinarySearchTree::traverse_depth_first_in_order
traverse_depth_first_in_order(self) ==
    IF self.root = None THEN <<>>
    ELSE node_traverse_depth_first_in_order(self.root[1], <<>>)

\* ----------------------------------------------------------------- sorts
\* The element values of the slices sorted (T: PartialOrd, here totally ordered).
Elements == 1..MaxElement

\* array[k] for a zero-based k, and whether the access is within bounds (an
\* access outside panics).
element_at(a, k) == a[k + 1]
in_bounds(a, k) == k >= 0 /\ k < Len(a)

\* array.swap(a, b)
swap(a, i, j) == [a EXCEPT ![i + 1] = a[j + 1], ![j + 1] = a[i + 1]]

\* A sort in progress: the slice, the swaps made so far, whether an access
\* outside the slice has panicked, and the sort's own locals.
running(a) == [array |-> a, swaps |-> 0, panicked |-> FALSE, no_swap |-> TRUE, lowest |-> 0]

\* What a sort leaves behind.
finished(st) == [array |-> st.array, swaps |-> st.swaps, panicked |-> st.panicked]

\* st after array.swap(i, j); both indices are bounds-checked.
swapped(st, i, j) ==
    IF in_bounds(st.array, i) /\ in_bounds(st.array, j)
    THEN [st EXCEPT !.array = swap(st.array, i, j), !.swaps = st.swaps + 1]
    ELSE [st EXCEPT !.panicked = TRUE]

\* Mutant of the inner loop of bubble sort: `for j in 0..i - 1`.
RECURSIVE bubble_inner_stops_early(_, _, _)
bubble_inner_stops_early(st, i, j) ==
    IF j >= i - 1 \/ st.panicked THEN st
    ELSE IF ~in_bounds(st.array, j) \/ ~in_bounds(st.array, j + 1)
         THEN [st EXCEPT !.panicked = TRUE]
    ELSE IF element_at(st.array, j) > element_at(st.array, j + 1)
         THEN bubble_inner_stops_early(
                  [swapped(st, j, j + 1) EXCEPT !.no_swap = FALSE], i, j + 1)
         ELSE bubble_inner_stops_early(st, i, j + 1)

\* Mutant of the inner loop of bubble sort: `array[j] >= array[j + 1]`.
RECURSIVE bubble_inner_swaps_equal(_, _, _)
bubble_inner_swaps_equal(st, i, j) ==
    IF j >= i \/ st.panicked THEN st
    ELSE IF ~in_bounds(st.array, j) \/ ~in_bounds(st.array, j + 1)
         THEN [st EXCEPT !.panicked = TRUE]
    ELSE IF element_at(st.array, j) >= element_at(st.array, j + 1)
         THEN bubble_inner_swaps_equal(
                  [swapped(st, j, j + 1) EXCEPT !.no_swap = FALSE], i, j + 1)
         ELSE bubble_inner_swaps_equal(st, i, j + 1)

\* bubble_sort: `for j in 0..i { .. }` from j on.
RECURSIVE bubble_inner(_, _, _)
bubble_inner(st, i, j) ==
    IF j >= i \/ st.panicked THEN st
    ELSE IF ~in_bounds(st.array, j) \/ ~in_bounds(st.array, j + 1)
         THEN [st EXCEPT !.panicked = TRUE]
    ELSE IF element_at(st.array, j) > element_at(st.array, j + 1)
         THEN bubble_inner([swapped(st, j, j + 1) EXCEPT !.no_swap = FALSE], i, j + 1)
         ELSE bubble_inner(st, i, j + 1)

\* bubble_sort: `for i in (0..array.len()).rev() { .. }` from i down.
RECURSIVE bubble_outer(_, _)
bubble_outer(st, i) ==
    IF i < 0 \/ st.panicked THEN st
    ELSE LET pass == bubble_inner([st EXCEPT !.no_swap = TRUE], i, 0)
         IN  IF pass.panicked \/ pass.no_swap THEN pass
             ELSE bubble_outer(pass, i - 1)

\* bubble_sort::sort
bubble_sort(a) == finished(bubble_outer(running(a), Len(a) - 1))

\* Mutant of the while loop of insertion sort: an `if`, one swap at most.
insertion_while_once(st, j, current_value) ==
    IF ~in_bounds(st.array, j) THEN [st EXCEPT !.panicked = TRUE]
    ELSE IF element_at(st.array, j) > current_value
         THEN swapped(st, j + 1, j)
         ELSE st

\* Mutant of the while loop of insertion sort: `j -= 1` in the place of the
\* checked subtraction, so the loop goes on below index 0.
RECURSIVE insertion_while_unchecked(_, _, _)
insertion_while_unchecked(st, j, current_value) ==
    IF st.panicked THEN st
    ELSE IF ~in_bounds(st.array, j) THEN [st EXCEPT !.panicked = TRUE]
    ELSE IF element_at(st.array, j) > current_value
         THEN insertion_while_unchecked(swapped(st, j + 1, j), j - 1, current_value)
         ELSE st

\* insertion_sort: `while array[j] > current_value { .. }` from j down; j = 0
\* ends the loop through checked_sub.
RECURSIVE insertion_while(_, _, _)
insertion_while(st, j, current_value) ==
    IF st.panicked THEN st
    ELSE IF ~in_bounds(st.array, j) THEN [st EXCEPT !.panicked = TRUE]
    ELSE IF element_at(st.array, j) > current_value
         THEN IF j = 0 THEN swapped(st, j + 1, j)
              ELSE insertion_while(swapped(st, j + 1, j), j - 1, current_value)
         ELSE st

\* insertion_sort: `for i in 1..array.len() { .. }` from i on.
RECURSIVE insertion_for(_, _)
insertion_for(st, i) ==
    IF i >= Len(st.array) \/ st.panicked THEN st
    ELSE insertion_for(insertion_while(st, i - 1, element_at(st.array, i)), i + 1)

\* insertion_sort::sort
insertion_sort(a) == finished(insertion_for(running(a), 1))

\* Mutant of the inner loop of selection sort: `array[i] > array[j]`.
RECURSIVE selection_inner_compares_first(_, _, _)
selection_inner_compares_first(st, i, j) ==
    IF j >= Len(st.array) \/ st.panicked THEN st
    ELSE IF ~in_bounds(st.array, i) \/ ~in_bounds(st.array, j)
         THEN [st EXCEPT !.panicked = TRUE]
    ELSE IF element_at(st.array, i) > element_at(st.array, j)
         THEN selection_inner_compares_first([st EXCEPT !.lowest = j], i, j + 1)
         ELSE selection_inner_compares_first(st, i, j + 1)

\* selection_sort: `for j in i..array.len() { .. }` from j on.
RECURSIVE selection_inner(_, _, _)
selection_inner(st, i, j) ==
    IF j >= Len(st.array) \/ st.panicked THEN st
    ELSE IF ~in_bounds(st.array, st.lowest) \/ ~in_bounds(st.array, j)
         THEN [st EXCEPT !.panicked = TRUE]
    ELSE IF element_at(st.array, st.lowest) > element_at(st.array, j)
         THEN selection_inner([st EXCEPT !.lowest = j], i, j + 1)
         ELSE selection_inner(st, i, j + 1)

\* selection_sort: `for i in 0..array.len() { .. }` from i on.
RECURSIVE selection_for(_, _)
selection_for(st, i) ==
    IF i >= Len(st.array) \/ st.panicked THEN st
    ELSE LET found == selection_inner([st EXCEPT !.lowest = i], i, i)
         IN  IF found.panicked THEN found
             ELSE IF found.lowest # i
                  THEN selection_for(swapped(found, i, found.lowest), i + 1)
                  ELSE selection_for(found, i + 1)

\* selection_sort::sort
selection_sort(a) == finished(selection_for(running(a), 0))

\* ------------------------------------------------------ singly linked list
\* SinglyLinkedList::new() / Default
linked_list_new == [length |-> 0, head |-> Nil, tail |-> Nil, nodes |-> <<>>]

\* Node::new(value) of linked_list.rs
ListNode(value) == [value |-> value, next |-> Nil]

\* a >= b on usize.
usize_ge(a, b) == ~usize_gt(b, a)

\* Rc::strong_count of a cell, the caller's local Rc not counted: the
\* references held by head, by tail and by the next links of live nodes.
linked_list_strong_count(self, node) ==
    (IF self.head = node THEN 1 ELSE 0)
    + (IF self.tail = node THEN 1 ELSE 0)
    + Cardinality({m \in DOMAIN self.nodes : self.nodes[m].next = node})

\* Rc::into_inner(node) mapped to the value: Some when the local Rc is the last
\* owner (the cell is freed), None otherwise (only the local Rc is dropped).
linked_list_into_inner(self, node) ==
    IF linked_list_strong_count(self, node) = 0
    THEN Returned([self EXCEPT !.nodes =
                       [m \in (DOMAIN self.nodes) \ {node} |-> self.nodes[m]]],
                  Some(self.nodes[node].value))
    ELSE Returned(self, None)

\* `self.length -= 1` followed by the extraction of `node`. At length 0 the
\* subtraction overflows: a panic with overflow checks, usize::MAX without.
linked_list_extract(self, node) ==
    IF self.length = 0
    THEN {Panic(self), linked_list_into_inner([self EXCEPT !.length = USIZE_MAX], node)}
    ELSE {linked_list_into_inner([self EXCEPT !.length = self.length - 1], node)}

\* SinglyLinkedList::push; new_node is the address Rc::new returns.
linked_list_push(self, value, new_node) ==
    LET nodes1 == (new_node :> ListNode(value)) @@ self.nodes
    IN  IF self.tail # Nil
        THEN [length |-> self.length + 1,
              head   |-> self.head,
              tail   |-> new_node,
              nodes  |-> [nodes1 EXCEPT ![self.tail].next = new_node]]
        ELSE [length |-> self.length + 1,
              head   |-> new_node,
              tail   |-> new_node,
              nodes  |-> nodes1]

\* The loop of pop that looks for the second-to-last node, from `current` on:
\* the node it stops at, or Nil where one of the `?` returns None.
RECURSIVE second_to_last(_, _)
second_to_last(nodes, current) ==
    IF current = Nil THEN Nil
    ELSE IF nodes[current].next = Nil THEN Nil
    ELSE IF nodes[nodes[current].next].next # Nil
         THEN second_to_last(nodes, nodes[current].next)
         ELSE current

\* Mutant of SinglyLinkedList::pop: `self.tail = current` left out.
linked_list_pop_keeps_tail(self) ==
    IF self.length = 0 THEN {Returned(self, None)}
    ELSE IF self.length = 1
    THEN IF self.head = Nil
         THEN {Returned([self EXCEPT !.length = 0, !.tail = Nil], None)}
         ELSE {linked_list_into_inner(
                   [self EXCEPT !.head = Nil, !.length = 0, !.tail = Nil], self.head)}
    ELSE
        LET current == second_to_last(self.nodes, self.head)
        IN  IF current = Nil THEN {Returned(self, None)}
            ELSE linked_list_extract(
                     [self EXCEPT !.nodes[current].next = Nil],
                     self.nodes[current].next)

\* SinglyLinkedList::pop: the set of its outcomes.
linked_list_pop(self) ==
    IF self.length = 0 THEN {Returned(self, None)}
    ELSE IF self.length = 1
    THEN IF self.head = Nil
         THEN {Returned([self EXCEPT !.length = 0, !.tail = Nil], None)}
         ELSE {linked_list_into_inner(
                   [self EXCEPT !.head = Nil, !.length = 0, !.tail = Nil], self.head)}
    ELSE
        LET current == second_to_last(self.nodes, self.head)
        IN  IF current = Nil THEN {Returned(self, None)}
            ELSE linked_list_extract(
                     [self EXCEPT !.nodes[current].next = Nil, !.tail = current],
                     self.nodes[current].next)

\* SinglyLinkedList::shift: the set of its outcomes.
linked_list_shift(self) ==
    IF self.head = Nil THEN {Returned(self, None)}
    ELSE
        LET head   == self.head
            next   == self.nodes[head].next
            nodes1 == [self.nodes EXCEPT ![head].next = Nil]
            moved  ==
                IF next # Nil
                THEN [self EXCEPT !.head = next, !.nodes = nodes1]
                ELSE [self EXCEPT !.head = Nil, !.tail = Nil, !.nodes = nodes1]
        IN  linked_list_extract(moved, head)

\* SinglyLinkedList::unshift; new_node is the address Rc::new returns.
linked_list_unshift(self, value, new_node) ==
    LET nodes1 == (new_node :> ListNode(value)) @@ self.nodes
    IN  IF self.head # Nil
        THEN [length |-> self.length + 1,
              head   |-> new_node,
              tail   |-> self.tail,
              nodes  |-> [nodes1 EXCEPT ![new_node].next = self.head]]
        ELSE [length |-> self.length + 1,
              head   |-> new_node,
              tail   |-> new_node,
              nodes  |-> nodes1]

\* Mutant of the walk of get / set: `if index > requested_index { break; }`.
RECURSIVE linked_list_walk_one_further(_, _, _, _)
linked_list_walk_one_further(nodes, current, index, requested_index) ==
    IF current = Nil THEN Nil
    ELSE IF index > requested_index THEN current
    ELSE linked_list_walk_one_further(nodes, nodes[current].next, index + 1, requested_index)

\* The `while let Some(node) = current.clone() { .. }` loop of get and set:
\* the value of `current` when the loop exits.
RECURSIVE linked_list_walk(_, _, _, _)
linked_list_walk(nodes, current, index, requested_index) ==
    IF current = Nil THEN Nil
    ELSE IF index >= requested_index THEN current
    ELSE linked_list_walk(nodes, nodes[current].next, index + 1, requested_index)

\* SinglyLinkedList::get: the value returned.
linked_list_get(self, requested_index) ==
    IF usize_ge(requested_index, self.length) THEN None
    ELSE LET current == linked_list_walk(self.nodes, self.head, 0, requested_index)
         IN  IF current = Nil THEN None ELSE Some(self.nodes[current].value)

\* SinglyLinkedList::set: the list afterwards and the bool returned.
linked_list_set(self, requested_index, value) ==
    IF usize_ge(requested_index, self.length) THEN Returned(self, FALSE)
    ELSE LET current == linked_list_walk(self.nodes, self.head, 0, requested_index)
         IN  IF current # Nil
             THEN Returned([self EXCEPT !.nodes[current].value = value], TRUE)
             ELSE Returned(self, FALSE)

\* SinglyLinkedList::insert: the list afterwards and the bool returned;
\* new_node is the address Rc::new returns in unshift or push.
linked_list_insert(self, requested_index, value, new_node) ==
    IF usize_ge(requested_index, self.length) THEN Returned(self, FALSE)
    ELSE IF requested_index = 0
    THEN Returned(linked_list_unshift(self, value, new_node), TRUE)
    ELSE IF requested_index = self.length
    THEN Returned(linked_list_push(self, value, new_node), TRUE)
    ELSE LET current == linked_list_walk(self.nodes, self.head, 0, requested_index)
         IN  IF current # Nil
             THEN Returned([self EXCEPT !.nodes[current].value = value], TRUE)
             ELSE Returned(self, FALSE)

\* ------------------------------------------------------------------ stack
\* Stack::new() / Default
stack_new == [top_layer |-> None, size |-> 0]

\* Stack::size
stack_size(self) == self.size

\* Stack::push: the stack afterwards.
stack_push(self, value) ==
    [top_layer |-> Some([value |-> value, next_layer |-> self.top_layer]),
     size      |-> self.size + 1]

\* Mutant of Stack::pop: `self.size -= 1` left out.
stack_pop_keeps_size(self) ==
    IF self.top_layer # None
    THEN {Returned([self EXCEPT !.top_layer = self.top_layer[1].next_layer],
                   Some(self.top_layer[1].value))}
    ELSE {Returned(self, None)}

\* Stack::pop: the set of its outcomes. `self.size -= 1` at size 0 overflows:
\* a panic with overflow checks, usize::MAX without.
stack_pop(self) ==
    IF self.top_layer # None
    THEN LET layer  == self.top_layer[1]
             popped == [self EXCEPT !.top_layer = layer.next_layer]
         IN  IF self.size = 0
             THEN {Panic(popped),
                   Returned([popped EXCEPT !.size = USIZE_MAX], Some(layer.value))}
             ELSE {Returned([popped EXCEPT !.size = self.size - 1], Some(layer.value))}
    ELSE {Returned(self, None)}

\* <Stack<T> as From<Vec<T>>>::from: `while let Some(val) = value.pop()
\* { stack.push(val); }` with `value` and `stack` as they stand.
RECURSIVE stack_from_vec_loop(_, _)
stack_from_vec_loop(value, self) ==
    IF value = <<>> THEN self
    ELSE stack_from_vec_loop(SubSeq(value, 1, Len(value) - 1),
                             stack_push(self, value[Len(value)]))

\* <Stack<T> as From<Vec<T>>>::from
stack_from_vec(value) == stack_from_vec_loop(value, stack_new)

\* The for_each of From<&[T]>: the elements at positions k, k - 1, .., 1 are
\* pushed in this order.
RECURSIVE stack_from_slice_each(_, _, _)
stack_from_slice_each(value, k, self) ==
    IF k < 1 THEN self
    ELSE stack_from_slice_each(value, k - 1, stack_push(self, value[k]))

\* Mutant of From<&[T]>: `value.iter()` without `.rev()`.
RECURSIVE stack_from_slice_forward_each(_, _, _)
stack_from_slice_forward_each(value, k, self) ==
    IF k > Len(value) THEN self
    ELSE stack_from_slice_forward_each(value, k + 1, stack_push(self, value[k]))

stack_from_slice_forward(value) == stack_from_slice_forward_each(value, 1, stack_new)

\* <Stack<T> as From<&[T]>>::from
stack_from_slice(value) == stack_from_slice_each(value, Len(value), stack_new)

\* ---------------------------------------------------------------- actions
\* A call `name(args)` made on the list, with outcome r.
Call(name, args, r) ==
    /\ ~panicked
    /\ list' = r.self
    /\ op' = [name |-> name, args |-> args]
    /\ ret' = r.ret
    /\ panicked' = r.panicked
    /\ panic_message' = r.message
    /\ UNCHANGED <<tree, inserted, array, swaps, linked_list, stack>>

ApiFrame == pc.at = "api" /\ UNCHANGED <<pc, input, output>>

Push(value) ==
    /\ ApiFrame
    /\ list.length < MaxLen
    /\ Call("push", <<value>>, Returned(push(list, value, rc_new(list)), None))

Pop == ApiFrame /\ \E r \in pop(list) : Call("pop", <<>>, r)

Shift(value) ==
    /\ ApiFrame
    /\ list.length < MaxLen
    /\ Call("shift", <<value>>, Returned(shift(list, value, rc_new(list)), None))

Unshift == ApiFrame /\ \E r \in unshift(list) : Call("unshift", <<>>, r)

Set(index, value) == ApiFrame /\ Call("set", <<index, value>>, set(list, index, value))

Get(index) == ApiFrame /\ Call("get", <<index>>, get(list, index))

Remove(index) == ApiFrame /\ \E r \in remove(list, index) : Call("remove", <<index>>, r)

IterNext == ApiFrame /\ \E r \in iter_next(list) : Call("next", <<>>, r)

\* The state after DoublyLinkedList::new().
Init ==
    /\ list = new
    /\ op = [name |-> "new", args |-> <<>>]
    /\ ret = None
    /\ panicked = FALSE
    /\ panic_message = ""
    /\ tree = tree_new
    /\ inserted = {}
    /\ array = <<>>
    /\ swaps = 0
    /\ linked_list = linked_list_new
    /\ stack = stack_new
    /\ pc = [fill |-> "none", drain |-> "none", i |-> 0, at |-> "api"]
    /\ input = <<>>
    /\ output = <<>>

Next ==
    \/ \E value \in Values : Push(value)
    \/ Pop
    \/ \E value \in Values : Shift(value)
    \/ Unshift
    \/ \E index \in Indices, value \in Values : Set(index, value)
    \/ \E index \in Indices : Get(index)
    \/ \E index \in Indices : Remove(index)
    \/ IterNext

\* Any interleaving of API calls on one list, starting empty.
Spec == Init /\ [][Next]_vars

\* The list goes out of scope (or the thread unwinds after a panic): it is
\* dropped and no call can follow.
Drop ==
    /\ pc.at = "api"
    /\ list' = drop(list)
    /\ op' = [name |-> "drop", args |-> <<>>]
    /\ ret' = None
    /\ pc' = [pc EXCEPT !.at = "dropped"]
    /\ UNCHANGED <<panicked, panic_message, input, output, tree, inserted>>
    /\ UNCHANGED <<array, swaps, linked_list, stack>>

DropNext == Next \/ Drop

\* Any interleaving of API calls on one list, ended by its drop.
SpecDrop == Init /\ [][DropNext]_vars

Insert(index, value) ==
    ApiFrame /\ Call("insert", <<index, value>>, insert(list, index, value))

InsertNext == Next \/ \E index \in Indices, value \in Values : Insert(index, value)

\* Any interleaving of API calls on one list, insert among them.
SpecInsert == Init /\ [][InsertNext]_vars

\* ---------------------------------------------------------------- driver
\* A program that builds a list from `input` with one of push / shift and then
\* drains it with one of pop / unshift / Iterator::next until the call returns
\* None, collecting the values in `output` (the shape of the repository's
\* returns_value_and_multiple_times tests).
Inputs == UNION {[1..n -> Values] : n \in 0..MaxLen}

\* The call the driver fills with.
fill_call(self, name, value, new_node) ==
    IF name = "push" THEN push(self, value, new_node) ELSE shift(self, value, new_node)

\* The call the driver drains with: the set of its outcomes.
drain_call(self, name) ==
    CASE name = "pop"     -> pop(self)
      [] name = "unshift" -> unshift(self)
      [] name = "next"    -> iter_next(self)

Fill ==
    /\ pc.at = "fill"
    /\ Call(pc.fill, <<input[pc.i]>>,
            Returned(fill_call(list, pc.fill, input[pc.i], rc_new(list)), None))
    /\ pc' = [pc EXCEPT !.i = pc.i + 1,
                        !.at = IF pc.i = Len(input) THEN "drain" ELSE "fill"]
    /\ UNCHANGED <<input, output>>

Drain ==
    /\ pc.at = "drain"
    /\ \E r \in drain_call(list, pc.drain) :
           /\ Call(pc.drain, <<>>, r)
           /\ IF r.panicked THEN UNCHANGED <<pc, output>>
              ELSE IF r.ret = None
                   THEN pc' = [pc EXCEPT !.at = "done"] /\ UNCHANGED output
                   ELSE output' = Append(output, r.ret[1]) /\ UNCHANGED pc
    /\ UNCHANGED input

\* The drained list is asked once more.
Poll ==
    /\ pc.at = "done"
    /\ \E r \in drain_call(list, pc.drain) :
           /\ Call(pc.drain, <<>>, r)
           /\ output' = IF r.ret = None THEN output ELSE Append(output, r.ret[1])
    /\ UNCHANGED <<input, pc>>

DrainInit ==
    /\ list = new
    /\ op = [name |-> "new", args |-> <<>>]
    /\ ret = None
    /\ panicked = FALSE
    /\ panic_message = ""
    /\ tree = tree_new
    /\ inserted = {}
    /\ array = <<>>
    /\ swaps = 0
    /\ linked_list = linked_list_new
    /\ stack = stack_new
    /\ input \in Inputs
    /\ output = <<>>
    /\ \E fill \in {"push", "shift"}, drain \in {"pop", "unshift", "next"} :
           pc = [fill |-> fill, drain |-> drain, i |-> 1,
                 at |-> IF input = <<>> THEN "drain" ELSE "fill"]

DrainNext == Fill \/ Drain \/ Poll

\* Fill a list from an input sequence, then drain it to the end.
SpecDrain == DrainInit /\ [][DrainNext]_vars

\* ------------------------------------------- binary search tree: actions
\* A call `name(args)` made on the tree, returning r.
TreeCall(name, args, r) ==
    /\ pc.at = "tree"
    /\ op' = [name |-> name, args |-> args]
    /\ ret' = r
    /\ UNCHANGED <<list, panicked, panic_message, input, output>>
    /\ UNCHANGED <<array, swaps, linked_list, stack>>

TreeInsert(value) ==
    /\ TreeCall("insert", <<value>>, None)
    /\ tree' = tree_insert(tree, value)
    /\ inserted' = inserted \cup {value}
    /\ UNCHANGED pc

TreeContains(value) ==
    /\ TreeCall("contains", <<value>>, tree_contains(tree, value))
    /\ UNCHANGED <<tree, inserted, pc>>

\* The traversals take `self` by value: the tree is moved into the call and
\* no call can follow. `tree` keeps the value that was moved.
Traverse(name, results) ==
    /\ TreeCall(name, <<>>, results)
    /\ pc' = [pc EXCEPT !.at = "moved"]
    /\ UNCHANGED <<tree, inserted>>

TraverseBreathFirst == Traverse("traverse_breath_first", traverse_breath_first(tree))

TraversePreOrder ==
    Traverse("traverse_depth_first_pre_order", traverse_depth_first_pre_order(tree))

TraversePostOrder ==
    Traverse("traverse_depth_first_post_order", traverse_depth_first_post_order(tree))

TraverseInOrder ==
    Traverse("traverse_depth_first_in_order", traverse_depth_first_in_order(tree))

TreeInit ==
    /\ tree = tree_new
    /\ inserted = {}
    /\ array = <<>>
    /\ swaps = 0
    /\ linked_list = linked_list_new
    /\ stack = stack_new
    /\ op = [name |-> "new", args |-> <<>>]
    /\ ret = None
    /\ pc = [fill |-> "none", drain |-> "none", i |-> 0, at |-> "tree"]
    /\ list = new
    /\ panicked = FALSE
    /\ panic_message = ""
    /\ input = <<>>
    /\ output = <<>>

TreeNext ==
    \/ \E value \in Keys : TreeInsert(value)
    \/ \E value \in Keys : TreeContains(value)
    \/ TraverseBreathFirst
    \/ TraversePreOrder
    \/ TraversePostOrder
    \/ TraverseInOrder

\* Any sequence of inserts and lookups on one tree, starting empty, ended by
\* at most one traversal.
SpecTree == TreeInit /\ [][TreeNext]_vars

\* ------------------------------------- binary search tree: From<Vec<T>>
\* The Vecs a tree is built from.
TreeInputs == UNION {[1..n -> Keys] : n \in 0..MaxVecLen}

\* One iteration of `for value in vec_value.into_iter() { tree.insert(value) }`.
FromInsert ==
    /\ pc.at = "from"
    /\ pc.i <= Len(input)
    /\ tree' = tree_insert(tree, input[pc.i])
    /\ inserted' = inserted \cup {input[pc.i]}
    /\ op' = [name |-> "insert", args |-> <<input[pc.i]>>]
    /\ pc' = [pc EXCEPT !.i = pc.i + 1]
    /\ UNCHANGED <<list, ret, panicked, panic_message, input, output>>
    /\ UNCHANGED <<array, swaps, linked_list, stack>>

\* The loop is over: from returns the tree.
FromReturn ==
    /\ pc.at = "from"
    /\ pc.i > Len(input)
    /\ op' = [name |-> "from", args |-> <<input>>]
    /\ pc' = [pc EXCEPT !.at = "built"]
    /\ UNCHANGED <<list, ret, panicked, panic_message, input, output, tree, inserted>>
    /\ UNCHANGED <<array, swaps, linked_list, stack>>

TreeFromInit ==
    /\ input \in TreeInputs
    /\ tree = tree_new
    /\ inserted = {}
    /\ array = <<>>
    /\ swaps = 0
    /\ linked_list = linked_list_new
    /\ stack = stack_new
    /\ op = [name |-> "new", args |-> <<>>]
    /\ ret = None
    /\ pc = [fill |-> "none", drain |-> "none", i |-> 1, at |-> "from"]
    /\ list = new
    /\ panicked = FALSE
    /\ panic_message = ""
    /\ output = <<>>

TreeFromNext == FromInsert \/ FromReturn

\* BinarySearchTree::from(vec_value), one insert at a time.
SpecTreeFrom == TreeFromInit /\ [][TreeFromNext]_vars

\* A traversal of the tree that from returned; the tree is moved into the call.
TraverseBuilt(name, results) ==
    /\ pc.at = "built"
    /\ op' = [name |-> name, args |-> <<>>]
    /\ ret' = results
    /\ pc' = [pc EXCEPT !.at = "moved"]
    /\ UNCHANGED <<list, panicked, panic_message, input, output, tree, inserted>>
    /\ UNCHANGED <<array, swaps, linked_list, stack>>

BuiltBreathFirst == TraverseBuilt("traverse_breath_first", traverse_breath_first(tree))

BuiltPreOrder ==
    TraverseBuilt("traverse_depth_first_pre_order", traverse_depth_first_pre_order(tree))

BuiltPostOrder ==
    TraverseBuilt("traverse_depth_first_post_order", traverse_depth_first_post_order(tree))

BuiltInOrder ==
    TraverseBuilt("traverse_depth_first_in_order", traverse_depth_first_in_order(tree))

TreeTraverseNext ==
    \/ TreeFromNext
    \/ BuiltBreathFirst
    \/ BuiltPreOrder
    \/ BuiltPostOrder
    \/ BuiltInOrder

\* BinarySearchTree::from(vec_value) followed by one traversal of the tree.
SpecTreeTraverse == TreeFromInit /\ [][TreeTraverseNext]_vars

\* ---------------------------------------------------------- sorts: actions
\* The slices handed to the sorts.
SortInputs == UNION {[1..n -> Elements] : n \in 0..MaxVecLen}

\* A call of one of the sorts on `array`, with what it leaves behind.
Sort(name, result) ==
    /\ pc.at = "sort"
    /\ ~panicked
    /\ op' = [name |-> name, args |-> <<array>>]
    /\ array' = result.array
    /\ swaps' = result.swaps
    /\ panicked' = result.panicked
    /\ UNCHANGED <<list, ret, panic_message, pc, input, output, tree, inserted,
                   linked_list, stack>>

BubbleSort == Sort("bubble_sort", bubble_sort(array))

InsertionSort == Sort("insertion_sort", insertion_sort(array))

SelectionSort == Sort("selection_sort", selection_sort(array))

SortInit ==
    /\ input \in SortInputs
    /\ array = input
    /\ swaps = 0
    /\ op = [name |-> "new", args |-> <<>>]
    /\ ret = None
    /\ pc = [fill |-> "none", drain |-> "none", i |-> 0, at |-> "sort"]
    /\ list = new
    /\ panicked = FALSE
    /\ panic_message = ""
    /\ output = <<>>
    /\ tree = tree_new
    /\ inserted = {}
    /\ linked_list = linked_list_new
    /\ stack = stack_new

SortNext == BubbleSort \/ InsertionSort \/ SelectionSort

\* Any sequence of sorts applied to one slice.
SpecSort == SortInit /\ [][SortNext]_vars

\* ------------------------------------------ singly linked list: actions
\* A call `name(args)` made on the singly linked list, with outcome r.
ListCall(name, args, r) ==
    /\ pc.at = "linked_list"
    /\ ~panicked
    /\ linked_list' = r.self
    /\ op' = [name |-> name, args |-> args]
    /\ ret' = r.ret
    /\ panicked' = r.panicked
    /\ panic_message' = r.message
    /\ UNCHANGED <<list, pc, input, output, tree, inserted, array, swaps, stack>>

ListPush(value) ==
    /\ linked_list.length < MaxLen
    /\ ListCall("push", <<value>>,
                Returned(linked_list_push(linked_list, value, rc_new(linked_list)), None))

ListPop == \E r \in linked_list_pop(linked_list) : ListCall("pop", <<>>, r)

ListShift == \E r \in linked_list_shift(linked_list) : ListCall("shift", <<>>, r)

ListUnshift(value) ==
    /\ linked_list.length < MaxLen
    /\ ListCall("unshift", <<value>>,
                Returned(linked_list_unshift(linked_list, value, rc_new(linked_list)), None))

ListGet(requested_index) ==
    ListCall("get", <<requested_index>>,
             Returned(linked_list, linked_list_get(linked_list, requested_index)))

ListSet(requested_index, value) ==
    ListCall("set", <<requested_index, value>>,
             linked_list_set(linked_list, requested_index, value))

ListInit ==
    /\ linked_list = linked_list_new
    /\ op = [name |-> "new", args |-> <<>>]
    /\ ret = None
    /\ panicked = FALSE
    /\ panic_message = ""
    /\ pc = [fill |-> "none", drain |-> "none", i |-> 0, at |-> "linked_list"]
    /\ list = new
    /\ input = <<>>
    /\ output = <<>>
    /\ tree = tree_new
    /\ inserted = {}
    /\ array = <<>>
    /\ swaps = 0
    /\ stack = stack_new

ListNext ==
    \/ \E value \in Values : ListPush(value)
    \/ ListPop
    \/ ListShift
    \/ \E value \in Values : ListUnshift(value)
    \/ \E requested_index \in Indices : ListGet(requested_index)
    \/ \E requested_index \in Indices, value \in Values : ListSet(requested_index, value)

\* Any interleaving of calls on one singly linked list, starting empty.
SpecLinkedList == ListInit /\ [][ListNext]_vars

ListInsert(requested_index, value) ==
    /\ linked_list.length < MaxLen
    /\ ListCall("insert", <<requested_index, value>>,
                linked_list_insert(linked_list, requested_index, value, rc_new(linked_list)))

ListInsertNext ==
    \/ ListNext
    \/ \E requested_index \in Indices, value \in Values : ListInsert(requested_index, value)

\* Any interleaving of calls on one singly linked list, insert among them.
SpecListInsert == ListInit /\ [][ListInsertNext]_vars

\* ---------------------------------------------------------- stack: actions
\* A call `name(args)` made on the stack, with outcome r.
StackCall(name, args, r) ==
    /\ pc.at = "stack"
    /\ ~panicked
    /\ stack' = r.self
    /\ op' = [name |-> name, args |-> args]
    /\ ret' = r.ret
    /\ panicked' = r.panicked
    /\ panic_message' = r.message
    /\ UNCHANGED <<list, pc, input, output, tree, inserted, array, swaps, linked_list>>

StackPush(value) ==
    /\ stack.size < MaxVecLen
    /\ StackCall("push", <<value>>, Returned(stack_push(stack, value), None))

StackPop == \E r \in stack_pop(stack) : StackCall("pop", <<>>, r)

StackSize == StackCall("size", <<>>, Returned(stack, stack_size(stack)))

StackInit ==
    /\ stack = stack_new
    /\ op = [name |-> "new", args |-> <<>>]
    /\ ret = None
    /\ panicked = FALSE
    /\ panic_message = ""
    /\ pc = [fill |-> "none", drain |-> "none", i |-> 0, at |-> "stack"]
    /\ list = new
    /\ input = <<>>
    /\ output = <<>>
    /\ tree = tree_new
    /\ inserted = {}
    /\ array = <<>>
    /\ swaps = 0
    /\ linked_list = linked_list_new

StackNext ==
    \/ \E value \in Elements : StackPush(value)
    \/ StackPop
    \/ StackSize

\* Any sequence of push, pop and size on one stack, starting empty.
SpecStack == StackInit /\ [][StackNext]_vars

\* ------------------------------------------------------ stack: From impls
\* The sequences a stack is built from.
StackInputs == UNION {[1..n -> Elements] : n \in 0..MaxVecLen}

\* Stack::from(value), by one of the two impls.
StackFrom(name, built_stack) ==
    /\ pc.at = "stack_from"
    /\ stack' = built_stack
    /\ op' = [name |-> name, args |-> <<input>>]
    /\ pc' = [pc EXCEPT !.at = "stack_built"]
    /\ UNCHANGED <<list, ret, panicked, panic_message, input, output>>
    /\ UNCHANGED <<tree, inserted, array, swaps, linked_list>>

StackFromVec == StackFrom("from_vec", stack_from_vec(input))

StackFromSlice == StackFrom("from_slice", stack_from_slice(input))

\* stack.size() on the stack that from built.
BuiltSize ==
    /\ pc.at = "stack_built"
    /\ ~panicked
    /\ op' = [name |-> "size", args |-> <<>>]
    /\ ret' = stack_size(stack)
    /\ UNCHANGED <<list, panicked, panic_message, pc, input, output, stack>>
    /\ UNCHANGED <<tree, inserted, array, swaps, linked_list>>

\* stack.pop() on the stack that from built; `output` collects what the pops
\* return, and the pop that returns nothing ends the run.
BuiltPop ==
    /\ pc.at = "stack_built"
    /\ ~panicked
    /\ \E r \in stack_pop(stack) :
          /\ stack' = r.self
          /\ ret' = r.ret
          /\ panicked' = r.panicked
          /\ panic_message' = r.message
          /\ output' = IF r.ret # None THEN Append(output, r.ret[1]) ELSE output
          /\ pc' = [pc EXCEPT !.at = IF r.ret = None /\ ~r.panicked
                                     THEN "stack_drained" ELSE "stack_built"]
    /\ op' = [name |-> "pop", args |-> <<>>]
    /\ UNCHANGED <<list, input, tree, inserted, array, swaps, linked_list>>

StackFromInit ==
    /\ input \in StackInputs
    /\ stack = stack_new
    /\ op = [name |-> "new", args |-> <<>>]
    /\ ret = None
    /\ panicked = FALSE
    /\ panic_message = ""
    /\ pc = [fill |-> "none", drain |-> "none", i |-> 0, at |-> "stack_from"]
    /\ list = new
    /\ output = <<>>
    /\ tree = tree_new
    /\ inserted = {}
    /\ array = <<>>
    /\ swaps = 0
    /\ linked_list = linked_list_new

StackFromNext == StackFromVec \/ StackFromSlice \/ BuiltSize \/ BuiltPop

\* Stack::from(input) by either impl, then size and pops until the stack is
\* empty.
SpecStackFrom == StackFromInit /\ [][StackFromNext]_vars

\* ================================================================ claims
\* The addresses met walking from `node` along next links, at most `fuel` nodes.
RECURSIVE path_from(_, _, _)
path_from(nodes, node, fuel) ==
    IF node = Nil \/ fuel = 0 \/ node \notin DOMAIN nodes THEN <<>>
    ELSE <<node>> \o path_from(nodes, nodes[node].next, fuel - 1)

\* The nodes reachable from head, in order.
path(self) == path_from(self.nodes, self.head, Cardinality(DOMAIN self.nodes) + 1)

\* Index `index` (a usize) names a position of a sequence of length n.
in_range(index, n) == index # USIZE_MAX /\ index < n

\* Sequence s without its zero-based position i.
delete_at(s, i) == [k \in 1..(Len(s) - 1) |-> IF k <= i THEN s[k] ELSE s[k + 1]]

\* The step just taken was the call `name` (every non-stuttering step of Spec
\* is a call, recorded in op').
Called(name) == op'.name = name

\* C1: in every reachable state the stored length equals the number of nodes
\* reachable from head, those nodes are distinct, and a non-empty list has
\* head.previous empty, tail.next empty and tail as the last node of the walk
\* from head (reached in exactly `length` steps).
C1_HeadTailLength ==
    LET p == path(list)
    IN  /\ Len(p) = list.length
        /\ Cardinality({p[k] : k \in 1..Len(p)}) = Len(p)
        /\ list.length > 0 =>
              /\ list.head # Nil
              /\ list.tail # Nil
              /\ list.nodes[list.head].previous = Nil
              /\ list.nodes[list.tail].next = Nil
              /\ p[Len(p)] = list.tail

\* C1 witness: a remove has just taken a node out and left a list of several
\* nodes.
C1_Witness ==
    /\ op.name = "remove"
    /\ ret # None
    /\ list.length >= 2
    /\ list.head # list.tail

\* C2: the forward and backward chains mirror each other: for any two live
\* nodes A and B, A.next is B exactly when B.previous is A.
C2_LinksMirror ==
    \A a \in DOMAIN list.nodes, b \in DOMAIN list.nodes :
        (list.nodes[a].next = b) <=> (list.nodes[b].previous = a)

\* C2 witness: remove(1) took the middle node out of a three-node list.
C2_Witness ==
    /\ op = [name |-> "remove", args |-> <<1>>]
    /\ ret # None
    /\ list.length = 2
    /\ list.nodes[list.head].next = list.tail

\* C3 (as claimed): remove(index) on an empty list or with index >= length
\* returns nothing without faulting and leaves length and contents unchanged.
C3_RemoveOutOfRangeIsNoop ==
    [][(Called("remove") /\ ~in_range(op'.args[1], list.length))
         => /\ ~panicked'
            /\ ret' = None
            /\ list'.length = list.length
            /\ contents(list') = contents(list)]_vars

\* C4: remove(i) with 0 <= i < length returns the value at position i, length
\* drops by one and the contents are the previous contents with position i
\* deleted.
C4_RemoveInRange ==
    [][(Called("remove") /\ in_range(op'.args[1], list.length))
         => /\ ~panicked'
            /\ ret' = Some(contents(list)[op'.args[1] + 1])
            /\ list'.length = list.length - 1
            /\ contents(list') = delete_at(contents(list), op'.args[1])]_vars

\* C4 witness: a remove at a middle index returned a value.
C4_Witness ==
    /\ op = [name |-> "remove", args |-> <<1>>]
    /\ ret # None
    /\ ~panicked
    /\ list.length = MaxLen - 1

\* The abstract sequence machine of C5: the sequence and the result after the
\* call `call` on sequence s.
abstract_call(s, call) ==
    LET a == call.args
    IN  CASE call.name = "push"    -> [seq |-> Append(s, a[1]), ret |-> None]
          [] call.name = "shift"   -> [seq |-> <<a[1]>> \o s, ret |-> None]
          [] call.name = "pop"     ->
                IF s = <<>> THEN [seq |-> s, ret |-> None]
                ELSE [seq |-> SubSeq(s, 1, Len(s) - 1), ret |-> Some(s[Len(s)])]
          [] call.name \in {"unshift", "next"} ->
                IF s = <<>> THEN [seq |-> s, ret |-> None]
                ELSE [seq |-> Tail(s), ret |-> Some(Head(s))]
          [] call.name = "remove"  ->
                IF in_range(a[1], Len(s))
                THEN [seq |-> delete_at(s, a[1]), ret |-> Some(s[a[1] + 1])]
                ELSE [seq |-> s, ret |-> None]
          [] call.name = "set"     ->
                IF in_range(a[1], Len(s))
                THEN [seq |-> [s EXCEPT ![a[1] + 1] = a[2]], ret |-> Some(s[a[1] + 1])]
                ELSE [seq |-> s, ret |-> None]
          [] call.name = "get"     ->
                IF in_range(a[1], Len(s))
                THEN [seq |-> s, ret |-> Some(s[a[1] + 1])]
                ELSE [seq |-> s, ret |-> None]

\* C5 (as claimed): every call takes the head-to-tail values to the abstract
\* sequence machine's next sequence, returns the abstract result, and leaves
\* len() equal to the abstract length.
C5_RefinesSequence ==
    [][/\ ~panicked'
       /\ [seq |-> contents(list'), ret |-> ret'] = abstract_call(contents(list), op')
       /\ list'.length = Len(contents(list'))]_vars

\* C5 restricted to the calls that return: each of them matches the abstract
\* machine (this holds; the calls that do not return are those of C3).
C5_ReturningCallsRefine ==
    [][~panicked' =>
         /\ [seq |-> contents(list'), ret |-> ret'] = abstract_call(contents(list), op')
         /\ list'.length = Len(contents(list'))]_vars

\* A state C5_ReturningCallsRefine speaks about: a set in the middle of a full list returned the old value after
\* values had entered at both ends.
C5_Witness ==
    /\ op.name = "set"
    /\ op.args[1] = 1
    /\ ret # None
    /\ list.length = MaxLen
    /\ contents(list)[2] = op.args[2]
    /\ ret # Some(op.args[2])

\* C9: get(i) returns the value at zero-based position i when i < length and
\* nothing when i >= length, and never changes the list.
C9_Get ==
    [][Called("get") =>
         /\ ~panicked'
         /\ list' = list
         /\ ret' = IF in_range(op'.args[1], list.length)
                   THEN Some(contents(list)[op'.args[1] + 1])
                   ELSE None]_vars

\* C9 witness: get of the last position of a full list returned its value.
C9_Witness ==
    /\ op = [name |-> "get", args |-> <<MaxLen - 1>>]
    /\ list.length = MaxLen
    /\ ret = Some(list.nodes[list.tail].value)

\* C9 second case reached: get(length) returned nothing on a non-empty list.
C9_WitnessAtLength ==
    /\ op.name = "get"
    /\ list.length > 0
    /\ op.args[1] = list.length
    /\ ret = None

\* C10: set(i, v) with i < length returns the old value at position i and
\* leaves the list as it was except that the node at position i holds v (so
\* length, head, tail, the set of nodes, every link and every other value are
\* unchanged); with i >= length it returns nothing and leaves the list
\* unchanged.
C10_Set ==
    [][Called("set") =>
         /\ ~panicked'
         /\ IF in_range(op'.args[1], list.length)
            THEN LET target == path(list)[op'.args[1] + 1]
                 IN  /\ ret' = Some(list.nodes[target].value)
                     /\ list' = [list EXCEPT !.nodes[target].value = op'.args[2]]
            ELSE /\ ret' = None
                 /\ list' = list]_vars

\* C10 witness: set replaced a different value in the middle of a list.
C10_Witness ==
    /\ op.name = "set"
    /\ op.args[1] = 1
    /\ list.length >= 3
    /\ ret # None
    /\ ret # Some(op.args[2])
    /\ list.nodes[list.nodes[list.head].next].value = op.args[2]

\* Sequence s reversed.
reverse(s) == [k \in 1..Len(s) |-> s[Len(s) + 1 - k]]

\* The driver runs the program that fills with `fill` and drains with `drain`.
Runs(fill, drain) == pc.fill = fill /\ pc.drain = drain

\* The list is empty: length 0, no head, no tail.
IsEmpty(self) == self.length = 0 /\ self.head = Nil /\ self.tail = Nil

\* C6: pushing a sequence and popping until pop returns nothing never faults,
\* each successful pop lowers the length by one, and in the end the popped
\* values are the pushed sequence reversed and the list is empty.
C6_PushPopReverses ==
    Runs("push", "pop") =>
        /\ ~panicked
        /\ pc.at \in {"drain", "done"} => list.length = Len(input) - Len(output)
        /\ pc.at = "done" => output = reverse(input) /\ IsEmpty(list) /\ ret = None

\* C6 witness: a sequence of MaxLen values, not a palindrome, was pushed and
\* popped to the end.
C6_Witness ==
    /\ Runs("push", "pop")
    /\ pc.at = "done"
    /\ Len(input) = MaxLen
    /\ input # reverse(input)
    /\ Len(output) = MaxLen

\* C7: shifting a sequence in and calling unshift until it returns nothing
\* never faults, yields the values in the reverse of the order they were
\* shifted in, and leaves the list empty.
C7_ShiftUnshiftReverses ==
    Runs("shift", "unshift") =>
        /\ ~panicked
        /\ pc.at \in {"drain", "done"} => list.length = Len(input) - Len(output)
        /\ pc.at = "done" => output = reverse(input) /\ IsEmpty(list) /\ ret = None

\* C7 witness: a sequence of MaxLen values, not a palindrome, was shifted in
\* and unshifted to the end.
C7_Witness ==
    /\ Runs("shift", "unshift")
    /\ pc.at = "done"
    /\ Len(input) = MaxLen
    /\ input # reverse(input)
    /\ Len(output) = MaxLen

\* The head-to-tail values of the list the driver built from `input`.
built(fill) == IF fill = "push" THEN input ELSE reverse(input)

\* C8: draining through the iterator never faults; every call yields the value
\* at the head (what unshift would return) and leaves the rest, or yields
\* nothing on the empty list and leaves it empty; what was collected so far
\* followed by what is still in the list is the list as built, so a list built
\* by pushing v1..vn yields v1..vn; and once nothing was returned the list is
\* empty and further calls return nothing.
C8_IteratorDrains ==
    /\ [](pc.drain = "next" =>
            /\ ~panicked
            /\ pc.at \in {"drain", "done"} => output \o contents(list) = built(pc.fill)
            /\ pc.at = "done" => IsEmpty(list) /\ ret = None /\ output = built(pc.fill))
    /\ [][(pc.drain = "next" /\ Called("next")) =>
            /\ \E r \in unshift(list) : ~r.panicked /\ ret' = r.ret
            /\ ret' = IF contents(list) = <<>> THEN None ELSE Some(Head(contents(list)))
            /\ contents(list') = IF contents(list) = <<>> THEN <<>> ELSE Tail(contents(list))
            /\ ret' = None => IsEmpty(list')]_vars

\* C8 witness: a list built by pushing MaxLen values, not all equal, was
\* drained through the iterator to the end.
C8_Witness ==
    /\ Runs("push", "next")
    /\ pc.at = "done"
    /\ Len(input) = MaxLen
    /\ input # reverse(input)
    /\ output = input

\* ------------------------------------------------- ownership at extraction
\* The references the list and its live nodes hold.
references(self) ==
    {self.head, self.tail}
        \cup {self.nodes[m].next : m \in DOMAIN self.nodes}
        \cup {self.nodes[m].previous : m \in DOMAIN self.nodes}

\* C11: when pop, unshift or remove takes a node out, the list and the
\* neighbours have let go of it before the value is extracted: the expect on
\* Rc::into_inner never fails in any of the three, the extracted cell is freed
\* (exactly the cells on the walk from head stay live) and nothing refers to a
\* freed cell afterwards.
C11_ExtractionHasOneOwner ==
    /\ panic_message # ExpectFailed
    /\ \A r \in pop(list) \cup unshift(list)
                 \cup UNION {remove(list, index) : index \in Indices} :
           /\ r.message # ExpectFailed
           /\ r.ret # None =>
                 /\ Cardinality(DOMAIN r.self.nodes) = Cardinality(DOMAIN list.nodes) - 1
                 /\ references(r.self) \subseteq DOMAIN r.self.nodes \cup {Nil}
    /\ DOMAIN list.nodes = {path(list)[k] : k \in 1..Len(path(list))}
    /\ references(list) \subseteq DOMAIN list.nodes \cup {Nil}

\* C11 witness: pop took the tail off a list of MaxLen nodes, its previous
\* node became the tail, and the freed cell is gone.
C11_Witness ==
    /\ op.name = "pop"
    /\ ret # None
    /\ ~panicked
    /\ list.length = MaxLen - 1
    /\ Cardinality(DOMAIN list.nodes) = MaxLen - 1

\* ------------------------------------------------------------------ drop
\* C12: dropping the list in any reachable state terminates after one loop
\* iteration per node of the list, in list order (every node has its previous
\* and next link taken), leaves head and tail empty, and leaves no live cell:
\* no node is referenced by another node or by the list, nothing leaks.
C12_DropReleasesEveryNode ==
    [][Called("drop") =>
          /\ drop_loop(list, <<>>).visited = path(list)
          /\ Len(path(list)) = Cardinality(DOMAIN list.nodes)
          /\ list'.head = Nil
          /\ list'.tail = Nil
          /\ DOMAIN list'.nodes = {}]_vars

\* C12 witness: a list of MaxLen nodes was dropped.
C12_Witness ==
    /\ op.name = "drop"
    /\ pc.at = "dropped"
    /\ list.length = MaxLen
    /\ list.nodes = <<>>

\* ------------------------------------------------- the ends of short lists
\* C13: pop and unshift on an empty list return nothing without faulting and
\* leave it as it was (length 0, head and tail empty); on a one-element list
\* either call returns that element without faulting and leaves length 0 with
\* head and tail empty and no live node.
C13_PopUnshiftShortLists ==
    [][(Called("pop") \/ Called("unshift")) =>
          /\ list.length = 0 =>
                /\ ~panicked'
                /\ ret' = None
                /\ list' = list
                /\ IsEmpty(list')
          /\ list.length = 1 =>
                /\ ~panicked'
                /\ ret' = Some(list.nodes[list.head].value)
                /\ IsEmpty(list')
                /\ list'.nodes = <<>>]_vars

\* C13 witness: unshift returned the only element of a one-element list.
C13_Witness ==
    /\ op.name = "unshift"
    /\ ret # None
    /\ ~panicked
    /\ IsEmpty(list)

\* C13 witness of the empty case: pop on the empty list returned nothing.
C13_WitnessEmpty ==
    /\ op.name = "pop"
    /\ ret = None
    /\ ~panicked
    /\ IsEmpty(list)

\* ================================================== binary search tree claims
\* The values stored in the subtree held by a child slot.
RECURSIVE subtree_values(_)
subtree_values(slot) ==
    IF slot = None THEN {}
    ELSE {slot[1].value} \cup subtree_values(slot[1].left)
                         \cup subtree_values(slot[1].right)

\* The number of nodes of the subtree held by a child slot.
RECURSIVE size(_)
size(slot) ==
    IF slot = None THEN 0
    ELSE 1 + size(slot[1].left) + size(slot[1].right)

\* Every node of the subtree has only smaller values to its left and only
\* greater values to its right.
RECURSIVE ordered(_)
ordered(slot) ==
    \/ slot = None
    \/ /\ \A v \in subtree_values(slot[1].left) : v < slot[1].value
       /\ \A v \in subtree_values(slot[1].right) : v > slot[1].value
       /\ ordered(slot[1].left)
       /\ ordered(slot[1].right)

\* The elements of a finite set of integers in strictly ascending order.
RECURSIVE ascending(_)
ascending(S) ==
    IF S = {} THEN <<>>
    ELSE LET least == CHOOSE v \in S : \A w \in S : v <= w
         IN  <<least>> \o ascending(S \ {least})

\* The set of the elements of a sequence.
elements(s) == {s[k] : k \in 1..Len(s)}

\* The values the tests build their tree from, and the same sequence with
\* every value replaced by its rank among them (an order-isomorphic tree).
TestValues == <<10, 6, 15, 3, 8, 20>>
TestRanks ==
    [k \in 1..Len(TestValues) |->
        Cardinality({w \in elements(TestValues) : w <= TestValues[k]})]

\* C14: after any sequence of inserts into an empty tree, every node has only
\* strictly smaller values in its left subtree and only strictly greater values
\* in its right subtree, and no value is stored in more than one node.
C14_SearchTreeOrder ==
    /\ ordered(tree.root)
    /\ size(tree.root) = Cardinality(subtree_values(tree.root))

\* C14 witness: an insert of a value already present, into a tree of MaxKey
\* nodes whose root has both children.
C14_Witness ==
    /\ op.name = "insert"
    /\ size(tree.root) = MaxKey
    /\ tree.root[1].left # None
    /\ tree.root[1].right # None
    /\ tree.root[1].value = op.args[1]

\* C15: for every sequence of inserts, repeats included, the in-order
\* traversal returns exactly the distinct inserted values in strictly ascending
\* order; the tree built from [10,6,15,3,8,20] yields [3,6,8,10,15,20].
C15_InOrderIsSorted ==
    /\ traverse_depth_first_in_order(tree) = ascending(inserted)
    /\ op.name = "traverse_depth_first_in_order" => ret = ascending(inserted)
    /\ traverse_depth_first_in_order(tree_from(TestValues)) = <<3, 6, 8, 10, 15, 20>>

\* C15 witness: the in-order traversal of a tree of the shape the test
\* builds returned the values in ascending order.
C15_Witness ==
    /\ op.name = "traverse_depth_first_in_order"
    /\ tree = tree_from(TestRanks)
    /\ ret = ascending(elements(TestRanks))

\* C16: contains(v) is true exactly when v was inserted, which is exactly when
\* v appears in the in-order traversal; the call leaves the tree as it was.
C16_ContainsIffInserted ==
    /\ [](\A v \in Keys :
            /\ tree_contains(tree, v) <=> v \in inserted
            /\ tree_contains(tree, v) <=> v \in elements(traverse_depth_first_in_order(tree)))
    /\ [][Called("contains") =>
            /\ ret' = (op'.args[1] \in inserted)
            /\ tree' = tree
            /\ inserted' = inserted]_vars

\* C16 witness: contains found a value two levels below the root.
C16_Witness ==
    /\ op.name = "contains"
    /\ ret = TRUE
    /\ tree.root[1].left # None
    /\ tree.root[1].left[1].right # None
    /\ tree.root[1].left[1].right[1].value = op.args[1]

\* C16 witness of absence: contains did not find a value in a non-empty tree.
C16_WitnessAbsent ==
    /\ op.name = "contains"
    /\ ret = FALSE
    /\ Cardinality(inserted) = MaxKey - 1

\* ------------------------------------------------------- traversal orders
\* The nodes of the subtree held by a child slot, each with the path that
\* leads to it from the root: 0 for a step to the left, 1 for one to the right.
RECURSIVE places(_, _)
places(slot, route) ==
    IF slot = None THEN {}
    ELSE {[value |-> slot[1].value, route |-> route]}
             \cup places(slot[1].left, Append(route, 0))
             \cup places(slot[1].right, Append(route, 1))

\* Where the value v sits in the tree.
place(self, v) == (CHOOSE e \in places(self.root, <<>>) : e.value = v).route

\* The node at p is a proper ancestor of the node at q.
above(p, q) == Len(p) < Len(q) /\ SubSeq(q, 1, Len(p)) = p

\* The routes part at some node, p into its left subtree, q into its right.
left_of(p, q) ==
    \E k \in 1..Len(p) :
        /\ k <= Len(q)
        /\ SubSeq(p, 1, k - 1) = SubSeq(q, 1, k - 1)
        /\ p[k] = 0
        /\ q[k] = 1

\* Level order: a smaller depth first, left to right within one depth.
level_before(p, q) == Len(p) < Len(q) \/ (Len(p) = Len(q) /\ left_of(p, q))

\* Pre-order: a node before its subtrees, the left subtree before the right.
pre_before(p, q) == above(p, q) \/ left_of(p, q)

\* Post-order: the left subtree before the right, both before the node.
post_before(p, q) == above(q, p) \/ left_of(p, q)

\* results lists every node of the tree once, in the order given by before.
visits_in_order(self, results, before(_, _)) ==
    /\ Len(results) = size(self.root)
    /\ elements(results) = subtree_values(self.root)
    /\ \A i \in 1..Len(results), j \in 1..Len(results) :
           i < j => before(place(self, results[i]), place(self, results[j]))

\* C17: traverse_breath_first returns the values in level order, the root
\* first, every node of depth d before any node of depth d + 1, left to right
\* within a level; the tree built from [10,6,15,3,8,20] yields [10,6,15,3,8,20].
C17_BreadthFirstIsLevelOrder ==
    /\ visits_in_order(tree, traverse_breath_first(tree), level_before)
    /\ tree.root # None => Head(traverse_breath_first(tree)) = tree.root[1].value
    /\ op.name = "traverse_breath_first" => ret = traverse_breath_first(tree)
    /\ traverse_breath_first(tree_from(TestValues)) = <<10, 6, 15, 3, 8, 20>>

\* C17 witness: the breadth-first traversal of a tree of the shape the test
\* builds returned its three levels in turn.
C17_Witness ==
    /\ op.name = "traverse_breath_first"
    /\ tree = tree_from(TestRanks)
    /\ ret = TestRanks

\* C18: the pre-order traversal returns each node before the nodes of its left
\* subtree and those before the nodes of its right subtree; the tree built
\* from [10,6,15,3,8,20] yields [10,6,3,8,15,20].
C18_PreOrder ==
    /\ visits_in_order(tree, traverse_depth_first_pre_order(tree), pre_before)
    /\ op.name = "traverse_depth_first_pre_order" =>
           ret = traverse_depth_first_pre_order(tree)
    /\ traverse_depth_first_pre_order(tree_from(TestValues)) = <<10, 6, 3, 8, 15, 20>>

\* C18 witness: the pre-order traversal of a tree of the shape the test
\* builds: root, its left subtree, its right subtree.
C18_Witness ==
    /\ op.name = "traverse_depth_first_pre_order"
    /\ tree = tree_from(TestRanks)
    /\ ret = <<TestRanks[1], TestRanks[2], TestRanks[4], TestRanks[5],
               TestRanks[3], TestRanks[6]>>

\* C19: the post-order traversal returns the nodes of each node's left
\* subtree, then those of its right subtree, then the node, so the root comes
\* last; the tree built from [10,6,15,3,8,20] yields [3,8,6,20,15,10].
C19_PostOrder ==
    /\ visits_in_order(tree, traverse_depth_first_post_order(tree), post_before)
    /\ tree.root # None =>
           LET results == traverse_depth_first_post_order(tree)
           IN  results[Len(results)] = tree.root[1].value
    /\ op.name = "traverse_depth_first_post_order" =>
           ret = traverse_depth_first_post_order(tree)
    /\ traverse_depth_first_post_order(tree_from(TestValues)) = <<3, 8, 6, 20, 15, 10>>

\* C19 witness: the post-order traversal of a tree of the shape the test
\* builds: left subtree, right subtree, root last.
C19_Witness ==
    /\ op.name = "traverse_depth_first_post_order"
    /\ tree = tree_from(TestRanks)
    /\ ret = <<TestRanks[4], TestRanks[5], TestRanks[2], TestRanks[6],
               TestRanks[3], TestRanks[1]>>

\* C20: on a tree with no nodes (new, or built from an empty sequence) each of
\* the four traversals returns an empty sequence and contains(v) is false for
\* every v.
C20_EmptyTree ==
    /\ tree_from(<<>>) = tree_new
    /\ tree = tree_new =>
          /\ traverse_breath_first(tree) = <<>>
          /\ traverse_depth_first_pre_order(tree) = <<>>
          /\ traverse_depth_first_post_order(tree) = <<>>
          /\ traverse_depth_first_in_order(tree) = <<>>
          /\ \A v \in Keys : ~tree_contains(tree, v)
          /\ pc.at = "moved" => ret = <<>>
          /\ op.name = "contains" => ret = FALSE
          /\ ~panicked

\* C20 witness: contains was asked of the empty tree.
C20_Witness ==
    /\ op.name = "contains"
    /\ tree = tree_new
    /\ ret = FALSE

\* C20 witness of a traversal: the empty tree was traversed breadth first.
C20_WitnessTraversal ==
    /\ op.name = "traverse_breath_first"
    /\ tree = tree_new
    /\ ret = <<>>

\* ------------------------------------------------------- the frame of insert
\* The route the descent for v takes through the places of a tree is the one
\* that, at every node above it, turns right where the node's value is less
\* than v and left where it is greater.
descends_to(nodes, v, route) ==
    \A a \in nodes :
        above(a.route, route) =>
            /\ a.value # v
            /\ route[Len(a.route) + 1] = IF a.value < v THEN 1 ELSE 0

\* C21: insert(v) changes the tree by at most one new leaf. If v is already
\* stored the tree is exactly as before; otherwise the nodes afterwards are the
\* nodes before, each with its value at its old place (same parent, same
\* side), and one new leaf holding v at the empty slot the descent reaches.
C21_InsertAddsOneLeaf ==
    [][Called("insert") =>
          LET v      == op'.args[1]
              before == places(tree.root, <<>>)
              after  == places(tree'.root, <<>>)
          IN  IF v \in subtree_values(tree.root)
              THEN tree' = tree
              ELSE /\ before \subseteq after
                   /\ size(tree'.root) = size(tree.root) + 1
                   /\ \E leaf \in after \ before :
                          /\ after = before \cup {leaf}
                          /\ leaf.value = v
                          /\ \A e \in before : e.route # leaf.route
                          /\ \A e \in after : ~above(leaf.route, e.route)
                          /\ descends_to(before, v, leaf.route)]_vars

\* C21 witness: an insert attached a new leaf two levels below the root of a
\* tree that already had both subtrees.
C21_Witness ==
    /\ op.name = "insert"
    /\ tree.root[1].left # None
    /\ tree.root[1].right # None
    /\ tree.root[1].right[1].left # None
    /\ tree.root[1].right[1].left[1].value = op.args[1]
    /\ tree.root[1].right[1].left[1].left = None
    /\ tree.root[1].right[1].left[1].right = None
    /\ size(tree.root) = MaxKey - 1

\* ------------------------------------------ doubly linked list: both ends
\* C29: in every reachable state of the doubly linked list head is empty
\* exactly when tail is empty exactly when the length is 0; and a list of
\* length 1 has head and tail on the same node, whose next and previous links
\* are both empty.
C29_EndsAgreeWithLength ==
    /\ (list.head = Nil) <=> (list.length = 0)
    /\ (list.tail = Nil) <=> (list.length = 0)
    /\ list.length = 1 =>
          /\ list.head = list.tail
          /\ list.head \in DOMAIN list.nodes
          /\ list.nodes[list.head].next = Nil
          /\ list.nodes[list.head].previous = Nil

\* C29 witness: remove(0) took the head off a two-node list and left a
\* one-node list.
C29_Witness ==
    /\ op = [name |-> "remove", args |-> <<0>>]
    /\ ret # None
    /\ ~panicked
    /\ list.length = 1
    /\ list.head = list.tail

\* C29 witness of the empty end: the only node of a list was removed.
C29_WitnessEmptied ==
    /\ op = [name |-> "remove", args |-> <<0>>]
    /\ ret # None
    /\ list.length = 0
    /\ list.head = Nil
    /\ list.tail = Nil

\* ------------------------------------------------------ degenerate chains
\* The values inserted so far by the loop of from, in order.
fed == SubSeq(input, 1, pc.i - 1)

\* The route of n steps to the side `turn`.
chain_route(n, turn) == [k \in 1..n |-> turn]

\* The places of the chain that holds s[1] at the root and every next value
\* one step further to the side `turn`.
chain(s, turn) ==
    {[value |-> s[k], route |-> chain_route(k - 1, turn)] : k \in 1..Len(s)}

\* C30: when the values inserted into an empty tree are distinct and strictly
\* ascending, the tree is one right-going chain: no node has a left child and
\* the n-th value is n - 1 steps to the right of the root; strictly descending
\* values give the left-going chain with no right child. No insert moves a
\* node that is already there.
C30_SortedInsertsMakeChain ==
    /\ []((\A k \in 1..(Len(fed) - 1) : fed[k] < fed[k + 1])
             => places(tree.root, <<>>) = chain(fed, 1))
    /\ []((\A k \in 1..(Len(fed) - 1) : fed[k] > fed[k + 1])
             => places(tree.root, <<>>) = chain(fed, 0))
    /\ [][places(tree.root, <<>>) \subseteq places(tree'.root, <<>>)]_vars

\* C30 witness: from was given MaxVecLen strictly ascending values and
\* returned a tree of that depth.
C30_Witness ==
    /\ pc.at = "built"
    /\ Len(input) = MaxVecLen
    /\ \A k \in 1..(Len(input) - 1) : input[k] < input[k + 1]
    /\ size(tree.root) = MaxVecLen
    /\ \E e \in places(tree.root, <<>>) : Len(e.route) = MaxVecLen - 1

\* C30 witness of the mirror case: MaxVecLen strictly descending values.
C30_WitnessDescending ==
    /\ pc.at = "built"
    /\ Len(input) = MaxVecLen
    /\ \A k \in 1..(Len(input) - 1) : input[k] > input[k + 1]
    /\ places(tree.root, <<>>) = chain(input, 0)

\* ================================================================ sort claims
\* The slice is in non-decreasing order.
is_sorted(a) == \A k \in 1..(Len(a) - 1) : a[k] <= a[k + 1]

\* How often v occurs in the slice.
occurrences(a, v) == Cardinality({k \in 1..Len(a) : a[k] = v})

\* The two slices hold the same elements, each as often.
is_permutation(a, b) ==
    /\ Len(a) = Len(b)
    /\ \A v \in elements(a) \cup elements(b) : occurrences(a, v) = occurrences(b, v)

\* The reference sort: the least element, then the rest sorted.
RECURSIVE reference_sort(_)
reference_sort(a) ==
    IF a = <<>> THEN <<>>
    ELSE LET k == CHOOSE i \in 1..Len(a) : \A j \in 1..Len(a) : a[i] <= a[j]
         IN  <<a[k]>> \o reference_sort(SubSeq(a, 1, k - 1) \o SubSeq(a, k + 1, Len(a)))

\* The arrays of the tests sort_sorted_array, sort_backwards_array and
\* sort_random_array.
TestSorted == <<1, 2, 3, 4, 5, 6, 7, 8, 9, 10>>
TestBackwards == <<10, 9, 8, 7, 6, 5, 4, 3, 2, 1>>
TestRandom == <<10, 9, 22, 10, 15, 5, 20, 1, 2, 1>>
TestArrays == {TestSorted, TestBackwards, TestRandom}

\* The sort left `after` for `before` without faulting: non-decreasing, a
\* permutation of the input, the array a reference sort gives.
sorts(before, result) ==
    /\ ~result.panicked
    /\ is_sorted(result.array)
    /\ is_permutation(before, result.array)
    /\ result.array = reference_sort(before)

\* C22: after bubble_sort::sort the array is in non-decreasing order and a
\* permutation of the input, equal to the reference sort of the input, for
\* every length from 0 on and with duplicates; so for the arrays of the tests.
C22_BubbleSortSorts ==
    /\ [][Called("bubble_sort") =>
            sorts(array, [array |-> array', swaps |-> swaps', panicked |-> panicked'])]_vars
    /\ [](\A a \in TestArrays : sorts(a, bubble_sort(a)))

\* C22 witness: bubble sort put a descending array of MaxVecLen elements, two
\* of them equal, in order.
C22_Witness ==
    /\ op.name = "bubble_sort"
    /\ Len(input) = MaxVecLen
    /\ \A k \in 1..(Len(input) - 1) : input[k] >= input[k + 1]
    /\ Cardinality(elements(input)) = MaxVecLen - 1
    /\ array = reference_sort(input)
    /\ swaps > 0

\* C23: after insertion_sort::sort the array is in non-decreasing order and a
\* permutation of the input, equal to the reference sort of the input, for
\* every length from 0 on and with duplicates; so for the arrays of the tests.
C23_InsertionSortSorts ==
    /\ [][Called("insertion_sort") =>
            sorts(array, [array |-> array', swaps |-> swaps', panicked |-> panicked'])]_vars
    /\ [](\A a \in TestArrays : sorts(a, insertion_sort(a)))

\* C23 witness: insertion sort moved the least element of an unsorted array
\* of MaxVecLen elements from the last place to the first.
C23_Witness ==
    /\ op.name = "insertion_sort"
    /\ Len(input) = MaxVecLen
    /\ \A k \in 1..(Len(input) - 1) : input[Len(input)] < input[k]
    /\ array = reference_sort(input)
    /\ swaps >= MaxVecLen - 1

\* C24: after selection_sort::sort the array is in non-decreasing order and a
\* permutation of the input, equal to the reference sort of the input, for
\* every length from 0 on and with duplicates; so for the arrays of the tests.
C24_SelectionSortSorts ==
    /\ [][Called("selection_sort") =>
            sorts(array, [array |-> array', swaps |-> swaps', panicked |-> panicked'])]_vars
    /\ [](\A a \in TestArrays : sorts(a, selection_sort(a)))

\* C24 witness: selection sort put an unsorted array of MaxVecLen elements
\* with a repeated element in order.
C24_Witness ==
    /\ op.name = "selection_sort"
    /\ Len(input) = MaxVecLen
    /\ ~is_sorted(input)
    /\ Cardinality(elements(input)) < MaxVecLen
    /\ array = reference_sort(input)
    /\ swaps > 0

\* C25: run on an array already in non-decreasing order, equal elements
\* included, each of the three sorts makes no swap and leaves the array as it
\* was.
C25_SortedInputNoSwap ==
    /\ [][((Called("bubble_sort") \/ Called("insertion_sort") \/ Called("selection_sort"))
              /\ is_sorted(array))
            => /\ swaps' = 0
               /\ array' = array
               /\ ~panicked']_vars
    /\ [](/\ bubble_sort(TestSorted) = [array |-> TestSorted, swaps |-> 0, panicked |-> FALSE]
          /\ insertion_sort(TestSorted) = bubble_sort(TestSorted)
          /\ selection_sort(TestSorted) = bubble_sort(TestSorted))

\* C25 witness: bubble sort was given a sorted array of MaxVecLen elements
\* with two equal neighbours and made no swap.
C25_Witness ==
    /\ op.name = "bubble_sort"
    /\ Len(input) = MaxVecLen
    /\ is_sorted(input)
    /\ \E k \in 1..(Len(input) - 1) : input[k] = input[k + 1]
    /\ Cardinality(elements(input)) > 1
    /\ op.args[1] = input
    /\ array = input
    /\ swaps = 0

\* ================================================= singly linked list claims
\* The abstract sequence machine of C26: the sequence and the result after the
\* call `call` on sequence s.
list_abstract_call(s, call) ==
    CASE call.name = "push"    -> [seq |-> Append(s, call.args[1]), ret |-> None]
      [] call.name = "unshift" -> [seq |-> <<call.args[1]>> \o s, ret |-> None]
      [] call.name = "pop"     ->
            IF s = <<>> THEN [seq |-> s, ret |-> None]
            ELSE [seq |-> SubSeq(s, 1, Len(s) - 1), ret |-> Some(s[Len(s)])]
      [] call.name = "shift"   ->
            IF s = <<>> THEN [seq |-> s, ret |-> None]
            ELSE [seq |-> Tail(s), ret |-> Some(Head(s))]

\* C26: under any interleaving of push, pop, shift and unshift from the empty
\* singly linked list, the head-to-tail values follow the abstract sequence
\* (push appends, unshift prepends, pop takes the last, shift takes the first),
\* each call returns the abstract result without faulting, len() is the
\* abstract length, tail is the last node reachable from head, and head and
\* tail are empty exactly when the list is.
C26_ListRefinesSequence ==
    /\ [](LET p == path(linked_list)
          IN  /\ linked_list.length = Len(contents(linked_list))
              /\ Len(p) = Len(contents(linked_list))
              /\ DOMAIN linked_list.nodes = elements(p)
              /\ linked_list.tail = IF p = <<>> THEN Nil ELSE p[Len(p)]
              /\ (linked_list.head = Nil) <=> (linked_list.length = 0)
              /\ (linked_list.tail = Nil) <=> (linked_list.length = 0))
    /\ [][(Called("push") \/ Called("unshift") \/ Called("pop") \/ Called("shift")) =>
            LET abstract == list_abstract_call(contents(linked_list), op')
            IN  /\ ~panicked'
                /\ contents(linked_list') = abstract.seq
                /\ ret' = abstract.ret
                /\ linked_list'.length = Len(abstract.seq)]_vars

\* C26 witness: pop walked to the second-to-last node of a list of MaxLen
\* nodes and returned the last value.
C26_Witness ==
    /\ op.name = "pop"
    /\ ret # None
    /\ ~panicked
    /\ linked_list.length = MaxLen - 1
    /\ Cardinality(DOMAIN linked_list.nodes) = MaxLen - 1

\* C26 witness of the other end: shift returned the only value of a list.
C26_WitnessShift ==
    /\ op.name = "shift"
    /\ ret # None
    /\ linked_list = linked_list_new

\* C27: for every reachable singly linked list and index i: if i < len, get(i)
\* returns the value at position i, and set(i, v) returns true, after which
\* get(i) returns v while len and every other position are as before; if
\* i >= len, get(i) returns nothing, set(i, v) returns false and the list is
\* unchanged. get never changes the list.
C27_ListGetSet ==
    /\ [][Called("get") =>
            LET i == op'.args[1]
                s == contents(linked_list)
            IN  /\ ~panicked'
                /\ linked_list' = linked_list
                /\ ret' = IF in_range(i, linked_list.length) THEN Some(s[i + 1]) ELSE None]_vars
    /\ [][Called("set") =>
            LET i == op'.args[1]
                v == op'.args[2]
                s == contents(linked_list)
            IN  /\ ~panicked'
                /\ IF in_range(i, linked_list.length)
                   THEN /\ ret' = TRUE
                        /\ linked_list_get(linked_list', i) = Some(v)
                        /\ contents(linked_list') = [s EXCEPT ![i + 1] = v]
                        /\ linked_list'.length = linked_list.length
                        /\ path(linked_list') = path(linked_list)
                   ELSE /\ ret' = FALSE
                        /\ linked_list' = linked_list]_vars

\* C27 witness: set(1, v) replaced the middle value of a list of MaxLen
\* values, whose neighbours hold another value.
C27_Witness ==
    /\ op.name = "set"
    /\ op.args[1] = 1
    /\ ret = TRUE
    /\ linked_list.length = MaxLen
    /\ contents(linked_list)[2] = op.args[2]
    /\ contents(linked_list)[1] # op.args[2]

\* C27 witness of the bound: get(len) on a non-empty list returned nothing.
C27_WitnessAtLength ==
    /\ op.name = "get"
    /\ linked_list.length > 0
    /\ op.args[1] = linked_list.length
    /\ ret = None

\* ============================================================== stack claims
\* The values stored in a chain of layers, the top one first.
RECURSIVE layers(_)
layers(slot) ==
    IF slot = None THEN <<>>
    ELSE <<slot[1].value>> \o layers(slot[1].next_layer)

\* C28: for any sequence of push and pop on a stack that starts empty, pop
\* returns the most recently pushed value not yet popped and takes it off, or
\* returns nothing on the empty stack and leaves size at 0; no call faults; and
\* size() is always the number of values stored.
C28_StackIsLifo ==
    /\ [](stack.size = Len(layers(stack.top_layer)))
    /\ [][Called("push") =>
            /\ ~panicked'
            /\ layers(stack'.top_layer) = <<op'.args[1]>> \o layers(stack.top_layer)
            /\ stack'.size = stack.size + 1]_vars
    /\ [][Called("pop") =>
            LET stored == layers(stack.top_layer)
            IN  /\ ~panicked'
                /\ IF stored = <<>>
                   THEN ret' = None /\ stack' = stack /\ stack'.size = 0
                   ELSE /\ ret' = Some(Head(stored))
                        /\ layers(stack'.top_layer) = Tail(stored)
                        /\ stack'.size = stack.size - 1]_vars
    /\ [][Called("size") =>
            /\ ret' = Len(layers(stack.top_layer))
            /\ stack' = stack]_vars

\* C28 witness: pop took the top off a full stack whose next layer holds
\* another value.
C28_Witness ==
    /\ op.name = "pop"
    /\ ret # None
    /\ ~panicked
    /\ stack.size = MaxVecLen - 1
    /\ ret[1] # stack.top_layer[1].value

\* C28 witness of the empty stack: pop returned nothing and size is 0.
C28_WitnessEmpty ==
    /\ op.name = "pop"
    /\ ret = None
    /\ stack = stack_new

\* ============================================ doubly linked list: insert
\* C31: DoublyLinkedList.insert is unsupported: for every index and every
\* list state a call of insert panics ("not yet implemented") instead of
\* returning, the list it was called on keeps its nodes, its contents and its
\* length, and since the call never returns no later call sees a list with
\* the value inserted.
C31_InsertIsUnsupported ==
    /\ [][Called("insert") =>
            /\ panicked'
            /\ panic_message' = NotImplemented
            /\ list' = list
            /\ contents(list') = contents(list)
            /\ list'.length = list.length]_vars
    /\ [](op.name = "insert" => panicked)
    /\ [][panicked /\ op.name = "insert" => list' = list]_vars

\* C31 witness: insert was called with an index inside a full list and
\* panicked, the list still full.
C31_Witness ==
    /\ op.name = "insert"
    /\ op.args[1] = 1
    /\ panicked
    /\ panic_message = NotImplemented
    /\ list.length = MaxLen
    /\ Len(contents(list)) = MaxLen

\* C31 witness of the empty list: insert at index 0 panicked as well.
C31_WitnessEmpty ==
    /\ op.name = "insert"
    /\ op.args[1] = 0
    /\ panicked
    /\ list = new

\* ============================================ the four traversals together
\* The four traversals of a tree, in the order breadth-first, pre-order,
\* in-order, post-order.
traversals(self) ==
    << traverse_breath_first(self),
       traverse_depth_first_pre_order(self),
       traverse_depth_first_in_order(self),
       traverse_depth_first_post_order(self) >>

\* The traversal that the call `name` runs.
traversal(name, self) ==
    CASE name = "traverse_breath_first" -> traverse_breath_first(self)
      [] name = "traverse_depth_first_pre_order" -> traverse_depth_first_pre_order(self)
      [] name = "traverse_depth_first_in_order" -> traverse_depth_first_in_order(self)
      [] name = "traverse_depth_first_post_order" -> traverse_depth_first_post_order(self)

\* C32: for every tree built by inserts, each of the breadth-first, pre-order,
\* in-order and post-order traversals returns every stored value exactly once:
\* the four results have the same length, the number of distinct inserted
\* values, they are permutations of one another and their elements are the set
\* of inserted values; the first inserted value is the root, so it is the first
\* value of the breadth-first and pre-order results and the last value of the
\* post-order result. A traversal that was called returned such a result.
C32_TraversalsArePermutations ==
    LET t == traversals(tree)
        stored == elements(fed)
    IN  /\ inserted = stored
        /\ \A k \in 1..4 :
              /\ Len(t[k]) = Cardinality(stored)
              /\ elements(t[k]) = stored
              /\ \A v \in stored : occurrences(t[k], v) = 1
              /\ \A m \in 1..4 : is_permutation(t[k], t[m])
        /\ fed # <<>> =>
              /\ tree.root # None
              /\ tree.root[1].value = fed[1]
              /\ Head(t[1]) = fed[1]
              /\ Head(t[2]) = fed[1]
              /\ t[4][Len(t[4])] = fed[1]
        /\ pc.at = "moved" =>
              /\ ret = traversal(op.name, tree)
              /\ Len(ret) = Cardinality(elements(input))
              /\ elements(ret) = elements(input)
              /\ \A v \in elements(input) : occurrences(ret, v) = 1

\* C32 witness: the pre-order traversal was called on a tree built from a Vec
\* with a repeated value whose first value has both a smaller and a greater
\* value after it, and returned one value less than the Vec holds.
C32_Witness ==
    /\ pc.at = "moved"
    /\ op.name = "traverse_depth_first_pre_order"
    /\ Len(input) = MaxVecLen
    /\ Len(ret) = MaxVecLen - 1
    /\ tree.root[1].left # None
    /\ tree.root[1].right # None
    /\ Head(ret) = input[1]

\* C32 witness of the post-order result: the first inserted value is last.
C32_WitnessPostOrder ==
    /\ pc.at = "moved"
    /\ op.name = "traverse_depth_first_post_order"
    /\ Len(ret) = MaxVecLen
    /\ ret[Len(ret)] = input[1]
    /\ Head(ret) # input[1]

\* ============================================ singly linked list: insert
\* The sequence s with v put at position i (0-based), the rest kept in order.
insert_at(s, i, v) == SubSeq(s, 1, i) \o <<v>> \o SubSeq(s, i + 1, Len(s))

\* C33: for 0 <= i <= len, SinglyLinkedList.insert(i, v) returns true, len
\* grows by exactly one, v ends up at position i and the values stored before
\* keep their relative order (i = 0 prepends, i = len appends); for i > len it
\* returns false and leaves the list unchanged.
C33_InsertAtIndex ==
    [][Called("insert") =>
            LET i == op'.args[1]
                v == op'.args[2]
                s == contents(linked_list)
            IN  /\ ~panicked'
                /\ IF in_range(i, linked_list.length + 1)
                   THEN /\ ret' = TRUE
                        /\ linked_list'.length = linked_list.length + 1
                        /\ contents(linked_list') = insert_at(s, i, v)
                   ELSE /\ ret' = FALSE
                        /\ linked_list' = linked_list]_vars

\* What insert does: it prepends at index 0 of a list that is not empty,
\* overwrites the value at an index 0 < i < len without adding a node, and for
\* every i >= len (i = len and the empty list included) returns false and
\* leaves the list unchanged.
C33_InsertAsCoded ==
    [][Called("insert") =>
            LET i == op'.args[1]
                v == op'.args[2]
                s == contents(linked_list)
            IN  /\ ~panicked'
                /\ IF ~in_range(i, linked_list.length)
                   THEN ret' = FALSE /\ linked_list' = linked_list
                   ELSE IF i = 0
                   THEN /\ ret' = TRUE
                        /\ contents(linked_list') = <<v>> \o s
                        /\ linked_list'.length = linked_list.length + 1
                   ELSE /\ ret' = TRUE
                        /\ contents(linked_list') = [s EXCEPT ![i + 1] = v]
                        /\ linked_list'.length = linked_list.length]_vars

\* insert(len, v) on a list that is not empty returned false.
C33_AppendRefused ==
    /\ op.name = "insert"
    /\ op.args[1] = linked_list.length
    /\ linked_list.length > 0
    /\ ret = FALSE

\* insert(1, v) returned true on a list of two values and overwrote the second.
C33_Overwritten ==
    /\ op.name = "insert"
    /\ op.args[1] = 1
    /\ ret = TRUE
    /\ linked_list.length = 2
    /\ contents(linked_list)[2] = op.args[2]

\* ======================================================= sort index safety
\* The slices of length 0 and 1.
ShortArrays == {<<>>} \cup {<<e>> : e \in Elements}

\* C34: for arrays of every length, 0 and 1 included, bubble, insertion and
\* selection sort run to their end without an access outside the array and
\* without an index below 0: bubble sort's j + 1 stays within the last index and
\* insertion sort's j stops at 0 through the checked subtraction. The array
\* keeps its length.
C34_SortsStayInBounds ==
    /\ [](~panicked)
    /\ [](\A a \in {input, array} \cup ShortArrays \cup TestArrays :
            /\ ~bubble_sort(a).panicked
            /\ ~insertion_sort(a).panicked
            /\ ~selection_sort(a).panicked
            /\ Len(bubble_sort(a).array) = Len(a)
            /\ Len(insertion_sort(a).array) = Len(a)
            /\ Len(selection_sort(a).array) = Len(a))
    /\ [][(Called("bubble_sort") \/ Called("insertion_sort") \/ Called("selection_sort")) =>
            /\ ~panicked'
            /\ Len(array') = Len(array)]_vars

\* C34 witness: insertion sort ran on a full-length array whose second element
\* is smaller than the first, so its first pass swapped at j = 0 and left the
\* loop through the checked subtraction; it did not fault.
C34_Witness ==
    /\ op.name = "insertion_sort"
    /\ Len(op.args[1]) = MaxVecLen
    /\ op.args[1][1] > op.args[1][2]
    /\ swaps > 0
    /\ ~panicked
    /\ Len(array) = MaxVecLen

\* C34 witness of bubble sort: its first pass compared the last two elements
\* (j + 1 at the last index) and swapped them.
C34_WitnessBubble ==
    /\ op.name = "bubble_sort"
    /\ Len(op.args[1]) = MaxVecLen
    /\ op.args[1][MaxVecLen - 1] > op.args[1][MaxVecLen]
    /\ swaps > 0
    /\ ~panicked

\* C34 witnesses of the short arrays: a sort ran on the empty slice, and on a
\* slice of one element.
C34_WitnessEmpty ==
    /\ op.name \in {"bubble_sort", "insertion_sort", "selection_sort"}
    /\ op.args[1] = <<>>
    /\ array = <<>>
    /\ ~panicked

C34_WitnessSingle ==
    /\ op.name = "selection_sort"
    /\ Len(op.args[1]) = 1
    /\ array = op.args[1]
    /\ ~panicked

\* ========================================================= stack: From
\* The Vec of the test pop_on_stack_with_1_layer_returns_layer_and_sets_size_to_0.
TestStackVec == <<5>>

\* C35: Stack::from(Vec) and Stack::from(&[T]) applied to the same sequence
\* build identical stacks: the size is the length of the sequence and the
\* layers hold its elements with the first on top and the last at the bottom,
\* so successive pops return the elements in the sequence's order, size going
\* down by one each time, until the stack is empty.
C35_FromVecAndSliceAgree ==
    /\ stack_from_vec(input) = stack_from_slice(input)
    /\ stack_from_vec(TestStackVec) = stack_from_slice(TestStackVec)
    /\ stack_pop(stack_from_vec(TestStackVec)) = {Returned(stack_new, Some(5))}
    /\ ~panicked
    /\ op.name \in {"from_vec", "from_slice"} =>
          /\ stack = stack_from_vec(input)
          /\ stack = stack_from_slice(input)
          /\ stack.size = Len(input)
          /\ layers(stack.top_layer) = input
    /\ pc.at \in {"stack_built", "stack_drained"} =>
          /\ output \o layers(stack.top_layer) = input
          /\ stack.size = Len(input) - Len(output)
    /\ op.name = "pop" /\ ret # None => ret = Some(input[Len(output)])
    /\ op.name = "size" => ret = Len(input) - Len(output)
    /\ pc.at = "stack_drained" => output = input /\ stack = stack_new /\ ret = None

\* C35 witness: a stack built from a sequence of MaxVecLen elements whose
\* first and last differ was popped until empty, and the pops returned the
\* sequence in its order.
C35_Witness ==
    /\ pc.at = "stack_drained"
    /\ Len(input) = MaxVecLen
    /\ input[1] # input[MaxVecLen]
    /\ output = input
    /\ stack.size = 0

\* C35 witnesses of the two impls: each built a full stack with the first
\* element on top.
C35_WitnessVec ==
    /\ op.name = "from_vec"
    /\ Len(input) = MaxVecLen
    /\ input[1] # input[MaxVecLen]
    /\ stack.top_layer[1].value = input[1]

C35_WitnessSlice ==
    /\ op.name = "from_slice"
    /\ Len(input) = MaxVecLen
    /\ input[1] # input[MaxVecLen]
    /\ stack.top_layer[1].value = input[1]

====
